---- MODULE Spec2Model ----
(***************************************************************************)
(* Model of the compiler front end: the lexer (src/src/lexer.rs) and the   *)
(* recursive-descent parser (src/src/parser.rs).                           *)
(*                                                                         *)
(* A character is a one-character string, a source text a sequence of      *)
(* characters.  A token is a pair <<kind, value>>; a cursor (`&[T]`) is    *)
(* the remaining suffix of the backing sequence.  A `Result` is            *)
(*   <<"Ok", value, rest>>, <<"Err", message>> or <<"Panic", message>>;    *)
(* the third form is an abnormal abort (`todo!()`, an index or slice out   *)
(* of range), which unwinds through every caller.                          *)
(* `Option`: None is <<>>, Some(x) is <<x>>.  AST nodes are tuples whose   *)
(* first element names the variant.                                        *)
(***************************************************************************)
EXTENDS Integers, Sequences, FiniteSets, TLC

VARIABLES source_text, token_details, input, pc, result

vars == <<source_text, token_details, input, pc, result>>

\* ------------------------------------------------------------------ values

Ok(value, rest) == <<"Ok", value, rest>>

Err(message) == <<"Err", message>>

Panic(message) == <<"Panic", message>>

None == <<>>

Some(x) == <<x>>

\* A token without payload, e.g. Token::Plus.
T(kind) == <<kind, "">>

Identifier(name) == <<"Identifier", name>>

Integer(v) == <<"Integer", v>>

\* f64 values are kept as a decimal pair <<mantissa, exponent>>.
Float(v) == <<"Float", v>>

Imaginary(v) == <<"Imaginary", v>>

NamedOperator(name) == <<"NamedOperator", name>>

GeneralString(v) == <<"GeneralString", v>>

TemplateString(v) == <<"TemplateString", v>>

NewLine == T("NewLine")

\* `*v as f64`
i64_as_f64(v) == <<v, 0>>

\* ------------------------------------------------------------------ cursor helpers

RECURSIVE skip_new_lines(_)
skip_new_lines(source_token_details) ==
    IF source_token_details # <<>> /\ source_token_details[1] = NewLine
    THEN skip_new_lines(Tail(source_token_details))
    ELSE source_token_details

is_token(expected, source_token_details) ==
    source_token_details # <<>> /\ source_token_details[1] = expected

any_token(expecteds, source_token_details) ==
    source_token_details # <<>> /\ source_token_details[1] \in expecteds

\* is_token_ignore_new_lines that does not skip the new lines.
is_token_at_cursor(expected, source_token_details) ==
    source_token_details # <<>> /\ source_token_details[1] = expected

is_token_ignore_new_lines(expected, source_token_details) ==
    is_token(expected, skip_new_lines(source_token_details))

consume_token(expected, source_token_details) ==
    IF source_token_details # <<>> /\ source_token_details[1] = expected
    THEN Ok(<<>>, Tail(source_token_details))
    ELSE Err("expected the specified symbol")

skip_new_lines_and_consume_token(expected, source_token_details) ==
    consume_token(expected, skip_new_lines(source_token_details))

\* consume_new_line_or_end_of_file that lets a statement end before any token.
consume_new_line_or_end_of_file_or_token(source_token_details) ==
    IF source_token_details = <<>>
    THEN Ok(<<>>, source_token_details)
    ELSE IF source_token_details[1] = NewLine
         THEN Ok(<<>>, Tail(source_token_details))
         ELSE Ok(<<>>, source_token_details)

consume_new_line_or_end_of_file(source_token_details) ==
    IF source_token_details = <<>>
    THEN Ok(<<>>, source_token_details)
    ELSE IF source_token_details[1] = NewLine
         THEN Ok(<<>>, Tail(source_token_details))
         ELSE Err("expected the new-line symbol")

\* ------------------------------------------------------------------ lexer

LexerError(message) == Err(<<"LexerError", message>>)

Char(c) == <<"Char", c>>

HashString(v) == <<"HashString", v>>

Attribute(v) == <<"Attribute", v>>

Boolean(v) == <<"Boolean", v>>

\* The character U+0060; a string of the module cannot contain it.
GraveAccent == "grave accent"

DigitChars == <<"0", "1", "2", "3", "4", "5", "6", "7", "8", "9">>

Digits == {DigitChars[i] : i \in 1..10}

Letters ==
    {"a", "b", "c", "d", "e", "f", "g", "h", "i", "j", "k", "l", "m", "n", "o", "p", "q", "r",
     "s", "t", "u", "v", "w", "x", "y", "z",
     "A", "B", "C", "D", "E", "F", "G", "H", "I", "J", "K", "L", "M", "N", "O", "P", "Q", "R",
     "S", "T", "U", "V", "W", "X", "Y", "Z"}

is_none_zero_number(c) == c \in Digits \ {"0"}

is_valid_first_letter_of_identifier_or_keyword(c) == c \in Letters \cup {"_"}

is_valid_letter_of_identifier_or_keyword(c) == c \in Letters \cup {"_"} \cup Digits

is_char(expected, source_chars) ==
    source_chars # <<>> /\ source_chars[1] = expected

is_chars(expected, source_chars) ==
    /\ source_chars # <<>> /\ source_chars[1] = expected[1]
    /\ is_char(expected[2], Tail(source_chars))

IsPanic(x) == x # <<>> /\ x[1] = "Panic"

\* `&source_chars[count..]`: the slice, or the abort of a start beyond the end.
move_forword(source_chars, count) ==
    IF count > Len(source_chars)
    THEN Panic("range start index out of range")
    ELSE SubSeq(source_chars, count + 1, Len(source_chars))

\* `&source_chars[from..to]`: Ok(the slice), or the abort of a range that is out of order
\* or beyond the end.
slice(source_chars, from, to) ==
    IF from > to THEN Panic("slice index starts after its end")
    ELSE IF to > Len(source_chars) THEN Panic("range end index out of range")
    ELSE Ok(SubSeq(source_chars, from + 1, to), <<>>)

\* `chars.iter().collect::<String>()`
RECURSIVE collect(_)
collect(chars) == IF chars = <<>> THEN "" ELSE chars[1] \o collect(Tail(chars))

\* `(token, move_forword(source_chars, count))`
token_and_rest(token, source_chars, count) ==
    LET rest == move_forword(source_chars, count)
    IN  IF IsPanic(rest) THEN rest ELSE Ok(token, rest)

\* ---- comments

\* skip_line_comment_loop that also counts the `\n` that ends the comment.
RECURSIVE skip_line_comment_loop_through_terminator(_, _)
skip_line_comment_loop_through_terminator(chars, end_pos) ==
    IF chars = <<>> THEN end_pos
    ELSE IF chars[1] = "\r" THEN (IF is_char("\n", Tail(chars)) THEN end_pos + 1 ELSE end_pos)
    ELSE IF chars[1] = "\n" THEN end_pos + 1
    ELSE skip_line_comment_loop_through_terminator(Tail(chars), end_pos + 1)

\* The loop of skip_line_comment: the final end_pos.
RECURSIVE skip_line_comment_loop(_, _)
skip_line_comment_loop(chars, end_pos) ==
    IF chars = <<>> THEN end_pos
    ELSE IF chars[1] = "\r" THEN (IF is_char("\n", Tail(chars)) THEN end_pos + 1 ELSE end_pos)
    ELSE IF chars[1] = "\n" THEN end_pos
    ELSE skip_line_comment_loop(Tail(chars), end_pos + 1)

skip_line_comment(source_chars) ==
    move_forword(source_chars, skip_line_comment_loop(source_chars, 0))

\* The loop of skip_comment: Ok(end_pos) at the break, or the error at the end of the text.
RECURSIVE skip_comment_loop(_, _)
skip_comment_loop(chars, end_pos) ==
    IF chars = <<>> THEN LexerError("expected comment ending symbol")
    ELSE IF chars[1] = "*" /\ is_char("/", Tail(chars)) THEN Ok(end_pos + 1, <<>>)
    ELSE skip_comment_loop(Tail(chars), end_pos + 1)

skip_comment(source_chars) ==
    LET l == skip_comment_loop(source_chars, 0)
    IN  IF l[1] # "Ok" THEN l ELSE token_and_rest(<<>>, source_chars, l[2] + 1)

RECURSIVE lex_document_comment_loop(_, _)
lex_document_comment_loop(chars, end_pos) ==
    IF chars = <<>> THEN LexerError("expected document comment ending symbol")
    ELSE IF chars[1] = "'" /\ is_chars(<<"'", "'">>, Tail(chars)) THEN Ok(end_pos + 2, <<>>)
    ELSE lex_document_comment_loop(Tail(chars), end_pos + 1)

lex_document_comment(source_chars) ==
    LET l == lex_document_comment_loop(source_chars, 0)
        end_pos == l[2]
        value_chars == slice(source_chars, 2, end_pos - 2)
    IN  IF l[1] # "Ok" THEN l
        ELSE IF value_chars[1] # "Ok" THEN value_chars
        ELSE token_and_rest(collect(value_chars[2]), source_chars, end_pos + 1)

\* ---- char and string literals

\* The loops of lex_char, lex_string and lex_template_string: a backslash directly before
\* the closing character hides it; Ok(end_pos) at the closing character, or the error at
\* the end of the text.
RECURSIVE lex_char_loop(_, _)
lex_char_loop(chars, end_pos) ==
    IF chars = <<>> THEN LexerError("expected char literal ending symbol")
    ELSE IF chars[1] = "\\"
    THEN (IF is_char("'", Tail(chars))
          THEN lex_char_loop(move_forword(Tail(chars), 1), end_pos + 2)
          ELSE lex_char_loop(Tail(chars), end_pos + 1))
    ELSE IF chars[1] = "'" THEN Ok(end_pos, <<>>)
    ELSE lex_char_loop(Tail(chars), end_pos + 1)

lex_char(source_chars) ==
    LET l == lex_char_loop(source_chars, 0)
        end_pos == l[2]
        value_chars == slice(source_chars, 0, end_pos)
        rest == move_forword(source_chars, end_pos + 1)
    IN  IF l[1] # "Ok" THEN l
        ELSE IF value_chars[1] # "Ok" THEN value_chars
        ELSE IF IsPanic(rest) THEN rest
        ELSE IF value_chars[2] = <<>> THEN Panic("index out of bounds")
        ELSE Ok(Char(value_chars[2][1]), rest)

\* The loop of lex_string where a backslash escapes whatever character follows it, so that
\* the quote after `\\` closes the string.
RECURSIVE lex_string_loop_escape_pairs(_, _)
lex_string_loop_escape_pairs(chars, end_pos) ==
    IF chars = <<>> THEN LexerError("expected string literal ending symbol")
    ELSE IF chars[1] = "\\"
    THEN (IF Tail(chars) # <<>>
          THEN lex_string_loop_escape_pairs(move_forword(Tail(chars), 1), end_pos + 2)
          ELSE lex_string_loop_escape_pairs(Tail(chars), end_pos + 1))
    ELSE IF chars[1] = "\"" THEN Ok(end_pos, <<>>)
    ELSE lex_string_loop_escape_pairs(Tail(chars), end_pos + 1)

RECURSIVE lex_string_loop(_, _)
lex_string_loop(chars, end_pos) ==
    IF chars = <<>> THEN LexerError("expected string literal ending symbol")
    ELSE IF chars[1] = "\\"
    THEN (IF is_char("\"", Tail(chars))
          THEN lex_string_loop(move_forword(Tail(chars), 1), end_pos + 2)
          ELSE lex_string_loop(Tail(chars), end_pos + 1))
    ELSE IF chars[1] = "\"" THEN Ok(end_pos, <<>>)
    ELSE lex_string_loop(Tail(chars), end_pos + 1)

lex_string(source_chars) ==
    LET l == lex_string_loop(source_chars, 0)
        end_pos == l[2]
        value_chars == slice(source_chars, 0, end_pos)
    IN  IF l[1] # "Ok" THEN l
        ELSE IF value_chars[1] # "Ok" THEN value_chars
        ELSE token_and_rest(GeneralString(collect(value_chars[2])), source_chars, end_pos + 1)

RECURSIVE lex_raw_string_loop(_, _)
lex_raw_string_loop(chars, end_pos) ==
    IF chars = <<>> THEN LexerError("expected raw string literal ending symbol")
    ELSE IF chars[1] = "\"" /\ is_chars(<<"\"", "\"">>, Tail(chars)) THEN Ok(end_pos + 2, <<>>)
    ELSE lex_raw_string_loop(Tail(chars), end_pos + 1)

lex_raw_string(source_chars) ==
    LET l == lex_raw_string_loop(source_chars, 0)
        end_pos == l[2]
        value_chars == slice(source_chars, 2, end_pos - 2)
    IN  IF l[1] # "Ok" THEN l
        ELSE IF value_chars[1] # "Ok" THEN value_chars
        ELSE token_and_rest(GeneralString(collect(value_chars[2])), source_chars, end_pos + 1)

RECURSIVE lex_template_string_loop(_, _)
lex_template_string_loop(chars, end_pos) ==
    IF chars = <<>> THEN LexerError("expected template string literal ending symbol")
    ELSE IF chars[1] = "\\"
    THEN (IF is_char(GraveAccent, Tail(chars))
          THEN lex_template_string_loop(move_forword(Tail(chars), 1), end_pos + 2)
          ELSE lex_template_string_loop(Tail(chars), end_pos + 1))
    ELSE IF chars[1] = GraveAccent THEN Ok(end_pos, <<>>)
    ELSE lex_template_string_loop(Tail(chars), end_pos + 1)

lex_template_string(source_chars) ==
    LET l == lex_template_string_loop(source_chars, 0)
        end_pos == l[2]
        value_chars == slice(source_chars, 0, end_pos)
    IN  IF l[1] # "Ok" THEN l
        ELSE IF value_chars[1] # "Ok" THEN value_chars
        ELSE token_and_rest(TemplateString(collect(value_chars[2])), source_chars, end_pos + 1)

\* ---- hash strings, named operators, attributes

RECURSIVE lex_hash_string_loop(_, _)
lex_hash_string_loop(chars, end_pos) ==
    IF chars # <<>> /\ is_valid_letter_of_identifier_or_keyword(chars[1])
    THEN lex_hash_string_loop(Tail(chars), end_pos + 1)
    ELSE end_pos

lex_hash_string(source_chars) ==
    LET end_pos == lex_hash_string_loop(source_chars, 0)
    IN  token_and_rest(HashString(collect(SubSeq(source_chars, 1, end_pos))),
                       source_chars, end_pos)

\* lex_named_operator_loop that takes the end of the name for its closing `:`.
RECURSIVE lex_named_operator_loop_unclosed(_, _)
lex_named_operator_loop_unclosed(chars, end_pos) ==
    IF chars = <<>> THEN LexerError("expected named operator ending symbol")
    ELSE IF is_valid_letter_of_identifier_or_keyword(chars[1])
    THEN lex_named_operator_loop_unclosed(Tail(chars), end_pos + 1)
    ELSE Ok(end_pos, <<>>)

RECURSIVE lex_named_operator_loop(_, _)
lex_named_operator_loop(chars, end_pos) ==
    IF chars = <<>> THEN LexerError("expected named operator ending symbol")
    ELSE IF chars[1] = ":" THEN Ok(end_pos, <<>>)
    ELSE IF is_valid_letter_of_identifier_or_keyword(chars[1])
    THEN lex_named_operator_loop(Tail(chars), end_pos + 1)
    ELSE LexerError("invalid identifier letter")

lex_named_operator(source_chars) ==
    LET l == lex_named_operator_loop(source_chars, 0)
        end_pos == l[2]
    IN  IF l[1] # "Ok" THEN l
        ELSE token_and_rest(NamedOperator(collect(SubSeq(source_chars, 1, end_pos))),
                            source_chars, end_pos + 1)

lex_attribute(source_chars) ==
    IF \A i \in 1..Len(source_chars) : source_chars[i] # "]"
    THEN LexerError("expected attribute ending symbol")
    ELSE LET end_pos == (CHOOSE i \in 1..Len(source_chars) :
                            /\ source_chars[i] = "]"
                            /\ \A j \in 1..(i - 1) : source_chars[j] # "]") - 1
             value_chars == slice(source_chars, 1, end_pos)
         IN  IF value_chars[1] # "Ok" THEN value_chars
             ELSE token_and_rest(Attribute(collect(value_chars[2])), source_chars, end_pos + 1)

lex_16_radix_integer(source_chars) == Panic("not yet implemented")

lex_2_radix_integer(source_chars) == Panic("not yet implemented")

lex_zero_point_float(source_chars) == Panic("not yet implemented")

\* ---- numbers

DigitValue(c) == (CHOOSE i \in 1..10 : DigitChars[i] = c) - 1

\* `.filter(|c| **c != '_')`
remove_underscores(chars) == SelectSeq(chars, LAMBDA c : c # "_")

RECURSIVE strip_leading_zeros(_)
strip_leading_zeros(digits) ==
    IF Len(digits) > 1 /\ digits[1] = "0" THEN strip_leading_zeros(Tail(digits)) ELSE digits

RECURSIVE decimal(_)
decimal(digits) ==
    IF digits = <<>> THEN 0
    ELSE decimal(SubSeq(digits, 1, Len(digits) - 1)) * 10 + DigitValue(digits[Len(digits)])

\* The number written by a sequence of digits.  TLC's integers are 32 bits wide,
\* so a number of more than nine digits is kept as its digits.
DecimalValue(digits) ==
    LET stripped == strip_leading_zeros(digits)
    IN  IF Len(stripped) <= 9 THEN decimal(stripped) ELSE <<"decimal", stripped>>

\* The digits of i64::MAX, 9223372036854775807.
I64MaxDigits ==
    <<"9", "2", "2", "3", "3", "7", "2", "0", "3", "6", "8", "5", "4", "7", "7", "5", "8", "0",
      "7">>

\* a <= b for two digit sequences of the same length
DigitsLessOrEqual(a, b) ==
    \/ a = b
    \/ \E i \in 1..Len(a) :
          /\ DigitValue(a[i]) < DigitValue(b[i])
          /\ \A j \in 1..(i - 1) : a[j] = b[j]

\* parse_i64 that accepts a value above i64::MAX.
parse_i64_unchecked(value_chars) ==
    IF value_chars = <<>> \/ \E i \in 1..Len(value_chars) : value_chars[i] \notin Digits
    THEN Err("invalid digit found in string")
    ELSE Ok(DecimalValue(value_chars), <<>>)

\* `value_string.parse::<i64>()` of a string of digits: Ok(value), or Err for the empty
\* string and for a value above i64::MAX.
parse_i64(value_chars) ==
    LET stripped == strip_leading_zeros(value_chars)
        fits == \/ Len(stripped) < Len(I64MaxDigits)
                \/ Len(stripped) = Len(I64MaxDigits) /\ DigitsLessOrEqual(stripped, I64MaxDigits)
    IN  IF value_chars = <<>> \/ \E i \in 1..Len(value_chars) : value_chars[i] \notin Digits
        THEN Err("invalid digit found in string")
        ELSE IF ~fits THEN Err("number too large to fit in target type")
        ELSE Ok(DecimalValue(value_chars), <<>>)

\* The position of the first c in chars, 0 when there is none.
first_position(c, chars) ==
    IF \A i \in 1..Len(chars) : chars[i] # c THEN 0
    ELSE CHOOSE i \in 1..Len(chars) : chars[i] = c /\ \A j \in 1..(i - 1) : chars[j] # c

RECURSIVE digit_count(_)
digit_count(n) == IF n < 10 THEN 1 ELSE 1 + digit_count(n \div 10)

RECURSIVE power_of_ten(_)
power_of_ten(n) == IF n = 0 THEN 1 ELSE 10 * power_of_ten(n - 1)

RECURSIVE without_trailing_zeros(_, _)
without_trailing_zeros(mantissa, exponent) ==
    IF mantissa % 10 = 0
    THEN without_trailing_zeros(mantissa \div 10, exponent + 1)
    ELSE <<mantissa, exponent>>

\* An f64 as the pair <<mantissa, exponent>> of its decimal notation, the mantissa without
\* trailing zeros; a value above f64::MAX (about 1.79769313e308) is infinity, a value below
\* 1e-324 is zero.  The loss of precision of subnormal values is not modelled.
f64(mantissa, exponent) ==
    IF mantissa = 0 THEN <<0, 0>>
    ELSE LET v == without_trailing_zeros(mantissa, exponent)
             digits == digit_count(v[1])
             magnitude == v[2] + digits
         IN  IF \/ magnitude > 309
                \/ magnitude = 309 /\ v[1] * power_of_ten(9 - digits) > 179769313
             THEN <<"inf">>
             ELSE IF magnitude < -323 THEN <<0, 0>>
             ELSE v

\* `value_string.parse::<f64>()` of `digits [. digits] [e [-] digits]`: there must be a
\* digit before or after the point, and a digit in the exponent if there is an `e`.
parse_f64(value_chars) ==
    LET e == first_position("e", value_chars)
        significand == IF e = 0 THEN value_chars ELSE SubSeq(value_chars, 1, e - 1)
        exponent_chars == IF e = 0 THEN <<>> ELSE SubSeq(value_chars, e + 1, Len(value_chars))
        is_negative == is_char("-", exponent_chars)
        exponent_digits == IF is_negative THEN Tail(exponent_chars) ELSE exponent_chars
        point == first_position(".", significand)
        integral == IF point = 0 THEN significand ELSE SubSeq(significand, 1, point - 1)
        fraction == IF point = 0 THEN <<>>
                    ELSE SubSeq(significand, point + 1, Len(significand))
        all_digits(s) == \A i \in 1..Len(s) : s[i] \in Digits
        exponent == IF is_negative
                    THEN 0 - DecimalValue(exponent_digits)
                    ELSE DecimalValue(exponent_digits)
        \* more digits than TLC's integers hold: the value is kept as its text
        is_long == \/ Len(strip_leading_zeros(integral \o fraction)) > 9
                   \/ Len(strip_leading_zeros(exponent_digits)) > 9
    IN  IF /\ integral \o fraction # <<>>
           /\ all_digits(integral) /\ all_digits(fraction) /\ all_digits(exponent_digits)
           /\ (e # 0 => exponent_digits # <<>>)
        THEN (IF is_long
              THEN Ok(<<"f64", value_chars>>, <<>>)
              ELSE Ok(f64(DecimalValue(integral \o fraction), exponent - Len(fraction)), <<>>))
        ELSE Err("invalid float literal")

\* `left.push(separator); left.extend_from_slice(right)`
extend_vec_with_with_separator_and_char_slice(left, separator, right) ==
    left \o <<separator>> \o right

continue_lex_imaginary_number(previous_chars, remain_chars) ==
    LET value == parse_f64(remove_underscores(previous_chars))
    IN  IF value[1] # "Ok"
        THEN LexerError("invalid float number")
        ELSE Ok(Imaginary(value[2]), remain_chars)

continue_lex_bit_number(previous_chars, remain_chars) == Panic("not yet implemented")

\* The exponent loop where a `-` after an exponent character ends the literal.
RECURSIVE continue_lex_float_number_exponent_loop_minus_ends(_, _, _, _)
continue_lex_float_number_exponent_loop_minus_ends(previous_chars, remain_chars, chars, end_pos) ==
    LET first == chars[1]
        rest == Tail(chars)
        extend_chars == extend_vec_with_with_separator_and_char_slice(
                            previous_chars, "e", SubSeq(remain_chars, 1, end_pos))
        value == parse_f64(remove_underscores(extend_chars))
        at_break == IF value[1] # "Ok"
                    THEN LexerError("invalid float number")
                    ELSE token_and_rest(Float(value[2]), remain_chars, end_pos)
        go_on == continue_lex_float_number_exponent_loop_minus_ends(previous_chars, remain_chars, rest,
                                                         end_pos + 1)
    IN  IF chars = <<>> THEN at_break
        ELSE IF first = "-"
        THEN (IF end_pos = 0 THEN go_on ELSE at_break)
        ELSE IF first \in Digits \cup {"_"} THEN go_on
        ELSE IF first = "."
        THEN (IF is_char(".", rest) THEN at_break ELSE LexerError("unsupport float exponent"))
        ELSE IF first = "'" THEN LexerError("invalid bit number")
        ELSE IF first = "i" THEN continue_lex_imaginary_number(extend_chars, rest)
        ELSE IF first = "e" THEN LexerError("invalid exponent number")
        ELSE at_break

RECURSIVE continue_lex_float_number_exponent_loop(_, _, _, _)
continue_lex_float_number_exponent_loop(previous_chars, remain_chars, chars, end_pos) ==
    LET first == chars[1]
        rest == Tail(chars)
        extend_chars == extend_vec_with_with_separator_and_char_slice(
                            previous_chars, "e", SubSeq(remain_chars, 1, end_pos))
        value == parse_f64(remove_underscores(extend_chars))
        at_break == IF value[1] # "Ok"
                    THEN LexerError("invalid float number")
                    ELSE token_and_rest(Float(value[2]), remain_chars, end_pos)
        go_on == continue_lex_float_number_exponent_loop(previous_chars, remain_chars, rest,
                                                         end_pos + 1)
    IN  IF chars = <<>> THEN at_break
        ELSE IF first = "-"
        THEN (IF end_pos = 0 THEN go_on ELSE LexerError("invalid exponent number"))
        ELSE IF first \in Digits \cup {"_"} THEN go_on
        ELSE IF first = "."
        THEN (IF is_char(".", rest) THEN at_break ELSE LexerError("unsupport float exponent"))
        ELSE IF first = "'" THEN LexerError("invalid bit number")
        ELSE IF first = "i" THEN continue_lex_imaginary_number(extend_chars, rest)
        ELSE IF first = "e" THEN LexerError("invalid exponent number")
        ELSE at_break

continue_lex_float_number_exponent(previous_chars, remain_chars) ==
    continue_lex_float_number_exponent_loop(previous_chars, remain_chars, remain_chars, 0)

RECURSIVE continue_lex_float_number_loop(_, _, _, _)
continue_lex_float_number_loop(previous_chars, remain_chars, chars, end_pos) ==
    LET first == chars[1]
        rest == Tail(chars)
        extend_chars == extend_vec_with_with_separator_and_char_slice(
                            previous_chars, ".", SubSeq(remain_chars, 1, end_pos))
        value == parse_f64(remove_underscores(extend_chars))
        at_break == IF value[1] # "Ok"
                    THEN LexerError("invalid float number")
                    ELSE token_and_rest(Float(value[2]), remain_chars, end_pos)
    IN  IF chars = <<>> THEN at_break
        ELSE IF first \in Digits \cup {"_"}
        THEN continue_lex_float_number_loop(previous_chars, remain_chars, rest, end_pos + 1)
        ELSE IF first = "." THEN LexerError("invalid float number")
        ELSE IF first = "'" THEN LexerError("invalid bit number")
        ELSE IF first = "i" THEN continue_lex_imaginary_number(extend_chars, rest)
        ELSE IF first = "e" THEN continue_lex_float_number_exponent(extend_chars, rest)
        ELSE at_break

continue_lex_float_number(previous_chars, remain_chars) ==
    continue_lex_float_number_loop(previous_chars, remain_chars, remain_chars, 0)

RECURSIVE lex_number_loop(_, _, _)
lex_number_loop(source_chars, chars, end_pos) ==
    LET first == chars[1]
        rest == Tail(chars)
        previous_chars == SubSeq(source_chars, 1, end_pos)
        value == parse_i64(remove_underscores(previous_chars))
        at_break == IF value[1] # "Ok"
                    THEN LexerError("invalid integer number")
                    ELSE token_and_rest(Integer(value[2]), source_chars, end_pos)
    IN  IF chars = <<>> THEN at_break
        ELSE IF first \in Digits \cup {"_"}
        THEN lex_number_loop(source_chars, rest, end_pos + 1)
        ELSE IF first = "."
        THEN (IF is_char(".", rest)
              THEN at_break
              ELSE continue_lex_float_number(previous_chars, rest))
        ELSE IF first = "'"
        THEN (IF is_chars(<<"'", "'">>, rest)
              THEN at_break
              ELSE continue_lex_bit_number(previous_chars, rest))
        ELSE IF first = "i" THEN continue_lex_imaginary_number(previous_chars, rest)
        ELSE IF first = "e" THEN continue_lex_float_number_exponent(previous_chars, rest)
        ELSE at_break

lex_number(source_chars) == lex_number_loop(source_chars, source_chars, 0)

\* ---- identifiers and keywords

lookup_keyword(name) ==
    CASE name = "true" -> Some(Boolean(TRUE))
      [] name = "false" -> Some(Boolean(FALSE))
      [] name = "do" -> Some(T("Do"))
      [] name = "join" -> Some(T("Join"))
      [] name = "let" -> Some(T("Let"))
      [] name = "fn" -> Some(T("Fn"))
      [] name = "sign" -> Some(T("Sign"))
      [] name = "if" -> Some(T("If"))
      [] name = "then" -> Some(T("Then"))
      [] name = "else" -> Some(T("Else"))
      [] name = "for" -> Some(T("For"))
      [] name = "next" -> Some(T("Next"))
      [] name = "each" -> Some(T("Each"))
      [] name = "in" -> Some(T("In"))
      [] name = "branch" -> Some(T("Branch"))
      [] name = "match" -> Some(T("Match"))
      [] name = "case" -> Some(T("Case"))
      [] name = "default" -> Some(T("Default"))
      [] name = "where" -> Some(T("Where"))
      [] name = "only" -> Some(T("Only"))
      [] name = "into" -> Some(T("Into"))
      [] name = "regular" -> Some(T("Regular"))
      [] name = "template" -> Some(T("Template"))
      [] name = "function" -> Some(T("Function"))
      [] name = "type" -> Some(T("Type"))
      [] name = "which" -> Some(T("Which"))
      [] name = "empty" -> Some(T("Empty"))
      [] name = "pattern" -> Some(T("Pattern"))
      [] name = "limit" -> Some(T("Limit"))
      [] name = "use" -> Some(T("Use"))
      [] name = "const" -> Some(T("Const"))
      [] name = "enum" -> Some(T("Enum"))
      [] name = "struct" -> Some(T("Struct"))
      [] name = "union" -> Some(T("Union"))
      [] name = "trait" -> Some(T("Trait"))
      [] name = "impl" -> Some(T("Impl"))
      [] name = "alias" -> Some(T("Alias"))
      [] OTHER -> None

RECURSIVE lex_identifier_or_keyword_loop(_, _)
lex_identifier_or_keyword_loop(chars, end_pos) ==
    IF chars # <<>> /\ is_valid_letter_of_identifier_or_keyword(chars[1])
    THEN lex_identifier_or_keyword_loop(Tail(chars), end_pos + 1)
    ELSE end_pos

lex_identifier_or_keyword(source_chars) ==
    LET end_pos == lex_identifier_or_keyword_loop(source_chars, 0)
        value == collect(SubSeq(source_chars, 1, end_pos))
        keyword == lookup_keyword(value)
    IN  token_and_rest(IF keyword # None THEN keyword[1] ELSE Identifier(value),
                       source_chars, end_pos)

\* ---- tokenize

\* `add_token_detail(.., new_token_detail(token)); rest`
one_token(token, rest) == IF IsPanic(rest) THEN rest ELSE Ok(<<token>>, rest)

\* `let (token_detail, post_rest) = lex..(..)?; add_token_detail(.., token_detail); post_rest`
scanned(r) == IF r[1] # "Ok" THEN r ELSE Ok(<<r[2]>>, r[3])

\* `first` followed by `second` is the token `double`, alone the token `single`.
one_or_two(second, double, single, rest) ==
    IF is_char(second, rest)
    THEN one_token(T(double), move_forword(rest, 1))
    ELSE one_token(T(single), rest)

\* One iteration of the loop of tokenize on a text that is not empty: Ok(the tokens it
\* adds, the remaining characters), or the error or abort that ends tokenize.
tokenize_step(chars) ==
    LET first == chars[1]
        rest == Tail(chars)
    IN  CASE first \in {" ", "\t"} -> Ok(<<>>, rest)
          [] first = "\r" ->
               IF is_char("\n", rest)
               THEN one_token(NewLine, move_forword(rest, 1))
               ELSE one_token(NewLine, rest)
          [] first \in {"\n", ";"} -> one_token(NewLine, rest)
          [] first = "/" ->
               IF is_char("/", rest) THEN Ok(<<>>, skip_line_comment(rest))
               ELSE IF is_char("*", rest)
               THEN LET post_rest == skip_comment(rest)
                    IN  IF post_rest[1] # "Ok" THEN post_rest ELSE Ok(<<>>, post_rest[3])
               ELSE one_token(T("Slash"), rest)
          [] first = "{" -> one_token(T("LeftBrace"), rest)
          [] first = "}" -> one_token(T("RightBrace"), rest)
          [] first = "=" -> one_or_two("=", "Equal", "Assign", rest)
          [] first = ">" -> one_or_two("=", "GreaterThanOrEqual", "GreaterThan", rest)
          [] first = "|" -> one_or_two("|", "LogicOr", "Pipe", rest)
          [] first = "&" -> one_or_two("&", "LogicAnd", "Combine", rest)
          [] first = "!" -> one_or_two("=", "NotEqual", "Exclamation", rest)
          [] first = "<" -> one_or_two("=", "LessThanOrEqual", "LessThan", rest)
          [] first = "+" -> one_or_two("+", "Concat", "Plus", rest)
          [] first = "-" -> one_or_two(">", "OptionalAnd", "Minus", rest)
          [] first = "*" -> one_token(T("Asterisk"), rest)
          [] first = "?" -> one_or_two("?", "OptionalOr", "Unwrap", rest)
          [] first = "^" -> one_token(T("Cast"), rest)
          [] first = "@" -> one_token(T("At"), rest)
          [] first = "." ->
               IF is_chars(<<".", ".">>, rest)
               THEN one_token(T("Ellipsis"), move_forword(rest, 2))
               ELSE IF is_chars(<<".", "=">>, rest)
               THEN one_token(T("IntervalInclusive"), move_forword(rest, 2))
               ELSE IF is_char(".", rest)
               THEN one_token(T("Interval"), move_forword(rest, 1))
               ELSE one_token(T("Dot"), rest)
          [] first = "[" -> one_token(T("LeftBracket"), rest)
          [] first = "]" -> one_token(T("RightBracket"), rest)
          [] first = "(" -> one_token(T("LeftParen"), rest)
          [] first = ")" -> one_token(T("RightParen"), rest)
          [] first = "," -> one_token(T("Comma"), rest)
          [] first = "'" ->
               IF is_chars(<<"'", "'">>, rest)
               THEN LET d == lex_document_comment(rest)
                    IN  IF d[1] # "Ok" THEN d ELSE Ok(<<>>, d[3])
               ELSE scanned(lex_char(rest))
          [] first = "\"" ->
               IF is_chars(<<"\"", "\"">>, rest)
               THEN scanned(lex_raw_string(rest))
               ELSE scanned(lex_string(rest))
          [] first = GraveAccent -> scanned(lex_template_string(rest))
          [] first = "0" ->
               IF is_char("x", rest) THEN scanned(lex_16_radix_integer(rest))
               ELSE IF is_char("b", rest) THEN scanned(lex_2_radix_integer(rest))
               ELSE IF is_char(".", rest)
               THEN (IF is_char(".", rest)
                     THEN one_token(Integer(0), rest)
                     ELSE scanned(lex_zero_point_float(rest)))
               ELSE IF rest # <<>> /\ is_valid_letter_of_identifier_or_keyword(rest[1])
               THEN LexerError("invalid identifier")
               ELSE one_token(Integer(0), rest)
          [] first = "#" ->
               IF rest # <<>> /\ is_valid_first_letter_of_identifier_or_keyword(rest[1])
               THEN scanned(lex_hash_string(rest))
               ELSE IF rest # <<>> /\ rest[1] = "["
               THEN scanned(lex_attribute(rest))
               ELSE LexerError("invalid char '#'")
          [] first = ":" ->
               IF rest = <<>> THEN one_token(T("Colon"), rest)
               ELSE IF rest[1] = ":" THEN one_token(T("Separator"), move_forword(rest, 1))
               ELSE IF is_valid_first_letter_of_identifier_or_keyword(rest[1])
               THEN LET n == lex_named_operator(rest)
                    IN  IF n[1] = "Err" THEN one_token(T("Colon"), rest) ELSE scanned(n)
               ELSE one_token(T("Colon"), rest)
          [] OTHER ->
               IF is_none_zero_number(first) THEN scanned(lex_number(chars))
               ELSE IF is_valid_first_letter_of_identifier_or_keyword(first)
               THEN scanned(lex_identifier_or_keyword(chars))
               ELSE LexerError("invalid char '" \o first \o "'")

RECURSIVE tokenize_loop(_, _)
tokenize_loop(chars, token_details_) ==
    IF chars = <<>>
    THEN Ok(token_details_, <<>>)
    ELSE LET step == tokenize_step(chars)
         IN  IF step[1] # "Ok"
             THEN step
             ELSE tokenize_loop(step[3], token_details_ \o step[2])

tokenize(text) == tokenize_loop(text, <<>>)

\* ------------------------------------------------------------------ parser

RECURSIVE call(_, _)



\* ---- literals and identifiers

\* continue_parse_imaginary without the lookahead: a number is never followed by an
\* imaginary part.
continue_parse_imaginary_never(source_token_details) == Err("not a complex number")

continue_parse_imaginary(source_token_details) ==
    IF source_token_details # <<>> /\ source_token_details[1] = T("Plus")
    THEN LET rest == Tail(source_token_details)
         IN  IF rest # <<>> /\ rest[1][1] = "Imaginary"
             THEN Ok(rest[1][2], Tail(rest))
             ELSE Err("not a complex number")
    ELSE Err("not a complex number")

parse_literal(source_token_details) ==
    IF source_token_details = <<>>
    THEN Err("expected literal")
    ELSE LET first == source_token_details[1]
             rest == Tail(source_token_details)
             v == first[2]
             im == call("continue_parse_imaginary", <<rest>>)
         IN  CASE first[1] = "Integer" ->
                    IF im[1] = "Ok"
                    THEN Ok(<<"Complex", i64_as_f64(v), im[2]>>, im[3])
                    ELSE Ok(<<"Integer", v>>, rest)
               [] first[1] = "Float" ->
                    IF im[1] = "Ok"
                    THEN Ok(<<"Complex", v, im[2]>>, im[3])
                    ELSE Ok(<<"Float", v>>, rest)
               [] first[1] = "Imaginary" -> Ok(<<"Complex", <<0, 0>>, v>>, rest)
               [] first[1] = "Bit" -> Ok(<<"Bit", v>>, rest)
               [] first[1] = "Boolean" -> Ok(<<"Boolean", v>>, rest)
               [] first[1] = "Char" -> Ok(<<"Char", v>>, rest)
               [] first[1] = "GeneralString" -> Ok(<<"GeneralString", v>>, rest)
               [] first[1] = "TemplateString" -> Panic("not yet implemented")
               [] first[1] = "HashString" -> Ok(<<"HashString", v>>, rest)
               [] first[1] = "NamedOperator" -> Ok(<<"NamedOperator", v>>, rest)
               [] OTHER -> Err("invalid literal")

convert_expression_to_data_type(exp) ==
    IF exp[1] \in {"Identifier", "Sign", "Tuple"}
    THEN Ok(<<"DataType", exp>>, <<>>)
    ELSE Err("invalid anonymous function parameter data type")

is_valid_left_hand_side(exp) == TRUE

continue_parse_ellipsis(source_token_details) ==
    LET post_consume_token_ellipsis == consume_token(T("Ellipsis"), source_token_details)
    IN  IF post_consume_token_ellipsis[1] # "Ok"
        THEN post_consume_token_ellipsis
        ELSE LET post == post_consume_token_ellipsis[3]
             IN  IF post # <<>> /\ post[1][1] = "Identifier"
                 THEN Ok(<<"Ellipsis", Some(post[1][2])>>, Tail(post))
                 ELSE Ok(<<"Ellipsis", None>>, post)

continue_parse_identifier_names(token_details_, names) ==
    IF token_details_ # <<>> /\ token_details_[1] = T("Separator")
    THEN LET post_token_separator == Tail(token_details_)
         IN  IF post_token_separator # <<>> /\ post_token_separator[1][1] = "Identifier"
             THEN call("continue_parse_identifier_names", <<Tail(post_token_separator),
                                                  Append(names, post_token_separator[1][2])>>)
             ELSE Err("expected identifier")
    ELSE Ok(names, token_details_)

new_identifier(names, generics) ==
    <<"Identifier", SubSeq(names, 1, Len(names) - 1), names[Len(names)], generics>>

continue_parse_identifier_no_rollback(source_token_details) ==
    IF source_token_details # <<>> /\ source_token_details[1][1] = "Identifier"
    THEN LET n == call("continue_parse_identifier_names", <<Tail(source_token_details),
                                                  <<source_token_details[1][2]>>>>)
         IN  IF n[1] # "Ok"
             THEN n
             ELSE IF is_token(T("LessThan"), n[3])
                  THEN LET g == call("continue_parse_generic_names", <<n[3]>>)
                       IN  IF g[1] = "Ok"
                           THEN Ok(new_identifier(n[2], g[2]), g[3])
                           ELSE g
                  ELSE Ok(new_identifier(n[2], <<>>), n[3])
    ELSE Err("expected identifier")

continue_parse_identifier(source_token_details) ==
    IF source_token_details # <<>> /\ source_token_details[1][1] = "Identifier"
    THEN LET n == call("continue_parse_identifier_names", <<Tail(source_token_details),
                                                  <<source_token_details[1][2]>>>>)
         IN  IF n[1] # "Ok"
             THEN n
             ELSE IF is_token(T("LessThan"), n[3])
                  THEN LET g == call("continue_parse_generic_names", <<n[3]>>)
                       IN  CASE g[1] = "Ok" -> Ok(new_identifier(n[2], g[2]), g[3])
                             [] g[1] = "Err" -> Ok(new_identifier(n[2], <<>>), n[3])
                             [] OTHER -> g
                  ELSE Ok(new_identifier(n[2], <<>>), n[3])
    ELSE Err("expected identifier")

parse_identifier(source_token_details) == call("continue_parse_identifier", <<source_token_details>>)

parse_prefix_identifier(source_token_details) ==
    LET c == consume_token(T("Exclamation"), source_token_details)
    IN  IF c[1] # "Ok"
        THEN c
        ELSE LET i == call("continue_parse_identifier", <<c[3]>>)
             IN  IF i[1] # "Ok" THEN i ELSE Ok(<<"PrefixIdentifier", i[2]>>, i[3])

continue_parse_generic_names_loop(token_details_, generics, is_expected_end) ==
    IF token_details_ = <<>>
    THEN Err("expected the right angle bracket symbol")
    ELSE IF token_details_[1] = T("GreaterThan")
    THEN Ok(generics, token_details_)
    ELSE IF is_expected_end
    THEN Err("expected the right angle bracket symbol")
    ELSE LET p == call("parse_primary_expression", <<token_details_>>)
         IN  IF p[1] # "Ok"
             THEN p
             ELSE LET d == convert_expression_to_data_type(p[2])
                      has_comma == is_token(T("Comma"), p[3])
                      post_comma == IF has_comma THEN Tail(p[3]) ELSE p[3]
                  IN  IF d[1] # "Ok"
                      THEN d
                      ELSE call("continue_parse_generic_names_loop", <<skip_new_lines(post_comma),
                                                             Append(generics, d[2]),
                                                             ~has_comma>>)

continue_parse_generic_names(source_token_details) ==
    LET c == consume_token(T("LessThan"), source_token_details)
    IN  IF c[1] # "Ok"
        THEN c
        ELSE LET l == call("continue_parse_generic_names_loop", <<skip_new_lines(c[3]), <<>>, FALSE>>)
             IN  IF l[1] # "Ok"
                 THEN l
                 ELSE LET e == consume_token(T("GreaterThan"), l[3])
                      IN  IF e[1] # "Ok" THEN e ELSE Ok(l[2], e[3])

continue_parse_type_expression(source_token_details) ==
    LET c == consume_token(T("Type"), source_token_details)
    IN  IF c[1] # "Ok"
        THEN c
        ELSE LET p == call("parse_primary_expression", <<skip_new_lines(c[3])>>)
             IN  IF p[1] # "Ok"
                 THEN p
                 ELSE LET d == convert_expression_to_data_type(p[2])
                      IN  IF d[1] # "Ok" THEN d ELSE Ok(d[2], p[3])

\* ---- binary and unary operators

\* Every function from parse_pipe_expression down to parse_constructor_expression opens with
\* `let (left, rest) = next(source_token_details)?` and does not look at source_token_details
\* again.  Such a function is modelled by what it does once that opening call has returned:
\* its parameter `opening` is the <<"Ok", left, rest>> the call returned (an Err or a panic
\* of the opening call has already left the function through the `?`).  `call`, at the end
\* of this section, makes the opening calls.

BinaryExpression(operator, left, right) == <<"BinaryExpression", operator, left, right>>

UnaryExpression(operator, operand) == <<"UnaryExpression", operator, operand>>

parse_binary_expression_loop_right(operator_tokens, next_parse_function, left, token_details_) ==
    IF token_details_ = <<>> \/ token_details_[1] \notin operator_tokens
    THEN Ok(left, token_details_)
    ELSE LET operator_token == token_details_[1]
             post_consume_new_lines == skip_new_lines(Tail(token_details_))
             r == call(next_parse_function, <<post_consume_new_lines>>)
             rr == call("parse_binary_expression_loop",
                        <<operator_tokens, next_parse_function, r[2], r[3]>>)
         IN  IF r[1] # "Ok" THEN r
             ELSE IF rr[1] # "Ok" THEN rr
             ELSE Ok(BinaryExpression(operator_token, left, rr[2]), rr[3])

parse_binary_expression_loop(operator_tokens, next_parse_function, left, token_details_) ==
    IF token_details_ = <<>> \/ token_details_[1] \notin operator_tokens
    THEN Ok(left, token_details_)
    ELSE LET operator_token == token_details_[1]
             post_consume_new_lines == skip_new_lines(Tail(token_details_))
             r == call(next_parse_function, <<post_consume_new_lines>>)
         IN  IF r[1] # "Ok"
             THEN r
             ELSE call("parse_binary_expression_loop", <<operator_tokens, next_parse_function,
                                               BinaryExpression(operator_token, left, r[2]), r[3]>>)

parse_binary_expression(operator_tokens, next_parse_function, opening) ==
    parse_binary_expression_loop(operator_tokens, next_parse_function, opening[2], opening[3])

\* parse_right_2_left_binary_expression with the right operand parsed by the next tier.
parse_right_2_left_binary_expression_next_tier(operator_token, next_parse_function, opening) ==
    IF is_token(operator_token, opening[3])
    THEN LET r == call(next_parse_function, <<skip_new_lines(Tail(opening[3]))>>)
         IN  IF r[1] # "Ok"
             THEN r
             ELSE Ok(BinaryExpression(operator_token, opening[2], r[2]), r[3])
    ELSE Ok(opening[2], opening[3])

parse_right_2_left_binary_expression(operator_token, next_parse_function, opening) ==
    IF is_token(operator_token, opening[3])
    THEN LET r == call("parse_expression", <<skip_new_lines(Tail(opening[3]))>>)
         IN  IF r[1] # "Ok"
             THEN r
             ELSE Ok(BinaryExpression(operator_token, opening[2], r[2]), r[3])
    ELSE Ok(opening[2], opening[3])

parse_pipe_expression(opening) ==
    parse_binary_expression({T("Pipe")},
                            "parse_logic_or_expression", opening)

parse_logic_or_expression(opening) ==
    parse_binary_expression({T("LogicOr")},
                            "parse_logic_and_expression", opening)

parse_logic_and_expression(opening) ==
    parse_binary_expression({T("LogicAnd")},
                            "parse_equality_expression", opening)

parse_equality_expression(opening) ==
    parse_binary_expression({T("Equal"), T("NotEqual")},
                            "parse_relational_expression", opening)

parse_relational_expression(opening) ==
    parse_binary_expression({T("GreaterThan"), T("GreaterThanOrEqual"),
                             T("LessThan"), T("LessThanOrEqual")},
                            "parse_named_operator_expression", opening)

\* parse_named_operator_expression with its right operand parsed by the tier itself, so
\* that a chain of named operators is taken whole.
parse_named_operator_expression_chain(opening) ==
    IF opening[3] # <<>> /\ opening[3][1][1] = "NamedOperator"
    THEN LET r == call("parse_named_operator_expression", <<skip_new_lines(Tail(opening[3]))>>)
         IN  IF r[1] # "Ok"
             THEN r
             ELSE Ok(BinaryExpression(opening[3][1], opening[2], r[2]), r[3])
    ELSE Ok(opening[2], opening[3])

parse_named_operator_expression(opening) ==
    IF opening[3] # <<>> /\ opening[3][1][1] = "NamedOperator"
    THEN LET r == call("parse_concat_expression", <<skip_new_lines(Tail(opening[3]))>>)
         IN  IF r[1] # "Ok"
             THEN r
             ELSE Ok(BinaryExpression(opening[3][1], opening[2], r[2]), r[3])
    ELSE Ok(opening[2], opening[3])

parse_concat_expression(opening) ==
    parse_binary_expression({T("Concat")},
                            "parse_additive_expression", opening)

parse_additive_expression(opening) ==
    parse_binary_expression({T("Plus"), T("Minus")},
                            "parse_multiplicative_expression", opening)

parse_multiplicative_expression_with_additive(opening) ==
    parse_binary_expression({T("Asterisk"), T("Slash"), T("Plus"), T("Minus")},
                            "parse_optional_or_expression", opening)

parse_multiplicative_expression(opening) ==
    parse_binary_expression({T("Asterisk"), T("Slash")},
                            "parse_optional_or_expression", opening)

parse_optional_or_expression(opening) ==
    parse_binary_expression({T("OptionalOr")},
                            "parse_optional_and_expression", opening)

parse_optional_and_expression(opening) ==
    parse_binary_expression({T("OptionalAnd")},
                            "parse_combine_expression", opening)

parse_combine_expression(opening) ==
    parse_right_2_left_binary_expression(T("Combine"), "parse_cast_expression", opening)

parse_cast_expression(opening) ==
    IF is_token(T("Cast"), opening[3])
    THEN LET c == consume_token(T("Cast"), opening[3])
         IN  IF c[1] # "Ok" THEN c ELSE Ok(UnaryExpression(T("Cast"), opening[2]), c[3])
    ELSE Ok(opening[2], opening[3])

parse_negative_expression(source_token_details) ==
    IF is_token(T("Minus"), source_token_details)
    THEN LET c == consume_token(T("Cast"), source_token_details)
         IN  IF c[1] # "Ok"
             THEN c
             ELSE LET l == call("parse_unwrap_expression", <<c[3]>>)
                  IN  IF l[1] # "Ok" THEN l ELSE Ok(UnaryExpression(T("Minus"), l[2]), l[3])
    ELSE call("parse_unwrap_expression", <<source_token_details>>)

parse_unwrap_expression(opening) ==
    IF is_token(T("Unwrap"), opening[3])
    THEN LET c == consume_token(T("Unwrap"), opening[3])
         IN  IF c[1] # "Ok" THEN c ELSE Ok(UnaryExpression(T("Unwrap"), opening[2]), c[3])
    ELSE Ok(opening[2], opening[3])

parse_mono_expression(opening) ==
    opening

\* The call loop that also folds the member and index accesses that follow a call.
parse_function_call_loop_then_members(object, token_details_) ==
    IF is_token(T("LeftParen"), token_details_)
    THEN LET a == call("continue_parse_arguments", <<token_details_>>)
         IN  IF a[1] # "Ok"
             THEN a
             ELSE call("parse_function_call_loop", <<<<"FunctionCallExpression", object, a[2]>>, a[3]>>)
    ELSE IF is_token(T("LeftBracket"), token_details_) \/ is_token(T("Dot"), token_details_)
    THEN LET m == call("parse_member_or_slice_loop", <<object, token_details_>>)
         IN  IF m[1] # "Ok" THEN m ELSE call("parse_function_call_loop", <<m[2], m[3]>>)
    ELSE Ok(object, token_details_)

parse_function_call_loop(object, token_details_) ==
    IF is_token(T("LeftParen"), token_details_)
    THEN LET a == call("continue_parse_arguments", <<token_details_>>)
         IN  IF a[1] # "Ok"
             THEN a
             ELSE call("parse_function_call_loop", <<<<"FunctionCallExpression", object, a[2]>>, a[3]>>)
    ELSE Ok(object, token_details_)

\* parse_function_call_expression that takes every object as a callee.
parse_function_call_expression_any_callee(opening) ==
    parse_function_call_loop(opening[2], opening[3])

parse_function_call_expression(opening) ==
    IF opening[2][1] \in {"Tuple", "List", "Map", "Sign", "Literal"}
    THEN Ok(opening[2], opening[3])
    ELSE parse_function_call_loop(opening[2], opening[3])

\* ---- calls, members, constructors, primary expressions

Argument(name, value) == <<"Argument", name, value>>

continue_parse_arguments_loop(token_details_, arguments, is_expected_end) ==
    IF token_details_ = <<>>
    THEN Err("expected the right paren symbol")
    ELSE IF token_details_[1] = T("RightParen")
    THEN Ok(arguments, token_details_)
    ELSE IF is_expected_end
    THEN Err("expected the right paren symbol")
    ELSE LET part_one == call("parse_expression", <<token_details_>>)
             has_key == is_token(T("Assign"), part_one[3])
             value_expression == call("parse_expression", <<skip_new_lines(Tail(part_one[3]))>>)
             one == IF ~has_key
                    THEN Ok(Argument(None, part_one[2]), part_one[3])
                    ELSE IF part_one[2][1] # "Identifier"
                    THEN Err("invalid argument name")
                    ELSE IF value_expression[1] # "Ok"
                    THEN value_expression
                    ELSE Ok(Argument(Some(part_one[2][3]), value_expression[2]),
                            value_expression[3])
             has_comma == is_token(T("Comma"), one[3])
             post_consume_comma == IF has_comma THEN Tail(one[3]) ELSE one[3]
         IN  IF part_one[1] # "Ok"
             THEN part_one
             ELSE IF one[1] # "Ok"
             THEN one
             ELSE call("continue_parse_arguments_loop", <<skip_new_lines(post_consume_comma),
                                                Append(arguments, one[2]),
                                                ~has_comma>>)

continue_parse_arguments(source_token_details) ==
    LET c == consume_token(T("LeftParen"), source_token_details)
    IN  IF c[1] # "Ok"
        THEN c
        ELSE LET l == call("continue_parse_arguments_loop", <<skip_new_lines(c[3]), <<>>, FALSE>>)
             IN  IF l[1] # "Ok"
                 THEN l
                 ELSE LET e == consume_token(T("RightParen"), l[3])
                      IN  IF e[1] # "Ok" THEN e ELSE Ok(l[2], e[3])

parse_member_or_slice_loop(object, token_details_) ==
    IF is_token(T("LeftBracket"), token_details_)
    THEN LET i == call("continue_parse_index_or_slice", <<token_details_>>)
         IN  IF i[1] # "Ok"
             THEN i
             ELSE call("parse_member_or_slice_loop", <<<<"MemberExpression", "Index", object, i[2]>>, i[3]>>)
    ELSE IF is_token_ignore_new_lines(T("Dot"), token_details_)
    THEN LET post_dot == skip_new_lines_and_consume_token(T("Dot"), token_details_)
             p == call("parse_constructor_expression", <<post_dot[3]>>)
         IN  IF post_dot[1] # "Ok"
             THEN post_dot
             ELSE IF p[1] # "Ok"
             THEN p
             ELSE IF p[2][1] = "Identifier" \/ (p[2][1] = "Literal" /\ p[2][2][1] = "Integer")
             THEN call("parse_member_or_slice_loop", <<<<"MemberExpression", "Property", object, p[2]>>,
                                             p[3]>>)
             ELSE Err("invalid property name")
    ELSE Ok(object, token_details_)

parse_member_or_slice_expression(opening) ==
    parse_member_or_slice_loop(opening[2], opening[3])

Interval(is_inclusive, from, to) == <<"Interval", is_inclusive, from, to>>

continue_parse_index_or_slice(source_token_details) ==
    LET c == consume_token(T("LeftBracket"), source_token_details)
        x == call("parse_expression", <<skip_new_lines(c[3])>>)
        has_interval == is_token(T("Interval"), x[3]) \/ is_token(T("IntervalInclusive"), x[3])
        v == call("continue_parse_interval", <<x[3]>>)
        index_or_slice == IF has_interval
                          THEN (IF v[1] # "Ok" THEN v
                                ELSE Ok(Interval(v[2][1], x[2], v[2][2]), v[3]))
                          ELSE x
        e == consume_token(T("RightBracket"), index_or_slice[3])
    IN  IF c[1] # "Ok" THEN c
        ELSE IF x[1] # "Ok" THEN x
        ELSE IF index_or_slice[1] # "Ok" THEN index_or_slice
        ELSE IF e[1] # "Ok" THEN e
        ELSE Ok(index_or_slice[2], e[3])

parse_constructor_expression(opening) ==
    IF opening[2][1] = "Identifier" /\ is_token(T("LeftBrace"), opening[3])
    THEN LET m == call("continue_parse_map", <<opening[3]>>)
         IN  IF m[1] # "Ok"
             THEN m
             ELSE Ok(<<"ConstructorExpression", opening[2], m[2]>>, m[3])
    ELSE Ok(opening[2], opening[3])

parse_primary_expression(source_token_details) ==
    IF source_token_details = <<>>
    THEN Err("expected primary expression")
    ELSE LET kind == source_token_details[1][1]
         IN  CASE kind = "Fn" -> call("parse_anonymous_function", <<source_token_details>>)
               [] kind = "LeftParen" -> call("parse_tuple_or_parenthesized", <<source_token_details>>)
               [] kind = "LeftBracket" -> call("parse_list", <<source_token_details>>)
               [] kind = "LeftBrace" -> call("parse_map", <<source_token_details>>)
               [] kind = "Exclamation" -> call("parse_prefix_identifier", <<source_token_details>>)
               [] kind = "Identifier" -> call("parse_identifier", <<source_token_details>>)
               [] kind = "Sign" -> call("parse_sign_expression", <<source_token_details>>)
               [] OTHER ->
                    LET l == call("parse_literal", <<source_token_details>>)
                    IN  IF l[1] # "Ok" THEN l ELSE Ok(<<"Literal", l[2]>>, l[3])

\* ---- anonymous functions

AnonymousParameter(data_type, name) == <<"AnonymousParameter", data_type, name>>

parse_anonymous_parameters(token_details_, parameters, is_expected_end) ==
    IF token_details_ = <<>>
    THEN Err("expected the right paren symbol")
    ELSE IF token_details_[1] = T("RightParen")
    THEN Ok(parameters, token_details_)
    ELSE IF is_expected_end
    THEN Err("expected the right paren symbol")
    ELSE LET part_one == call("parse_expression", <<token_details_>>)
             post_part_one == part_one[3]
             d == convert_expression_to_data_type(part_one[2])
             one == IF post_part_one # <<>>
                       /\ post_part_one[1] \in {T("Comma"), T("RightParen")}
                    THEN (IF part_one[2][1] = "Identifier"
                          THEN Ok(AnonymousParameter(None, part_one[2][3]), post_part_one)
                          ELSE Err("invalid anonymous function parameter name"))
                    ELSE IF post_part_one # <<>> /\ post_part_one[1][1] = "Identifier"
                    THEN (IF d[1] # "Ok"
                          THEN d
                          ELSE Ok(AnonymousParameter(Some(d[2]), post_part_one[1][2]),
                                  Tail(post_part_one)))
                    ELSE Err("incomplete anonymous function parameter")
             has_comma == is_token(T("Comma"), one[3])
             post_consume_comma == IF has_comma THEN Tail(one[3]) ELSE one[3]
         IN  IF part_one[1] # "Ok"
             THEN part_one
             ELSE IF one[1] # "Ok"
             THEN one
             ELSE call("parse_anonymous_parameters", <<skip_new_lines(post_consume_comma),
                                             Append(parameters, one[2]),
                                             ~has_comma>>)

\* The loop over the `type` and `which` clauses that follow a parameter list.
parse_type_and_which_clauses(token_details_, return_data_type, whiches) ==
    IF is_token(T("Type"), token_details_)
    THEN LET t == call("continue_parse_type_expression", <<token_details_>>)
         IN  IF t[1] # "Ok"
             THEN t
             ELSE call("parse_type_and_which_clauses", <<skip_new_lines(t[3]), Some(t[2]), whiches>>)
    ELSE IF is_token(T("Which"), token_details_)
    THEN LET w == call("continue_parse_which_expression", <<token_details_>>)
         IN  IF w[1] # "Ok"
             THEN w
             ELSE call("parse_type_and_which_clauses", <<skip_new_lines(w[3]), return_data_type, w[2]>>)
    ELSE Ok(<<return_data_type, whiches>>, token_details_)

parse_anonymous_function(source_token_details) ==
    LET c == consume_token(T("Fn"), source_token_details)
        token_details_ == skip_new_lines(c[3])
        l == call("parse_anonymous_parameters", <<skip_new_lines(Tail(token_details_)), <<>>, FALSE>>)
        e == consume_token(T("RightParen"), l[3])
        post_parameters ==
            IF is_token(T("LeftParen"), token_details_)
            THEN (IF l[1] # "Ok" THEN l
                  ELSE IF e[1] # "Ok" THEN e
                  ELSE Ok(l[2], e[3]))
            ELSE IF token_details_ # <<>> /\ token_details_[1][1] = "Identifier"
            THEN Ok(<<AnonymousParameter(None, token_details_[1][2])>>, Tail(token_details_))
            ELSE Err("expected anonymous function parameter")
        clauses == call("parse_type_and_which_clauses", <<skip_new_lines(post_parameters[3]), None, <<>>>>)
        post_assignment == IF is_token(T("Assign"), clauses[3])
                           THEN skip_new_lines(Tail(clauses[3]))
                           ELSE clauses[3]
        body == call("continue_parse_expression_block_or_single_expression", <<post_assignment>>)
    IN  IF c[1] # "Ok" THEN c
        ELSE IF post_parameters[1] # "Ok" THEN post_parameters
        ELSE IF clauses[1] # "Ok" THEN clauses
        ELSE IF body[1] # "Ok" THEN body
        ELSE Ok(<<"AnonymousFunction", post_parameters[2], clauses[2][1], clauses[2][2],
                  body[2]>>, body[3])

\* ---- lists, tuples, intervals, maps

\* parse_list_loop with a comma that must be followed by another element.
parse_list_loop_comma_needs_element(token_details_, expressions, is_expected_end) ==
    IF token_details_ = <<>>
    THEN Err("expected the right bracket symbol")
    ELSE IF token_details_[1] = T("RightBracket")
    THEN Ok(expressions, token_details_)
    ELSE IF is_expected_end
    THEN Err("expected the right bracket symbol")
    ELSE IF token_details_[1] = T("Ellipsis")
    THEN LET e == call("continue_parse_ellipsis", <<token_details_>>)
         IN  IF e[1] # "Ok"
             THEN e
             ELSE IF is_token(T("Comma"), e[3])
             THEN Err("expected an element")
             ELSE call("parse_list_loop", <<skip_new_lines(e[3]), Append(expressions, e[2]), TRUE>>)
    ELSE LET x == call("parse_expression", <<token_details_>>)
             has_interval == is_token(T("Interval"), x[3])
                             \/ is_token(T("IntervalInclusive"), x[3])
             v == call("continue_parse_interval", <<x[3]>>)
             post_check_interval ==
                 IF has_interval
                 THEN (IF v[1] # "Ok" THEN v ELSE Ok(Interval(v[2][1], x[2], v[2][2]), v[3]))
                 ELSE x
             has_comma == is_token(T("Comma"), post_check_interval[3])
             post_consume_comma == IF has_comma
                                   THEN Tail(post_check_interval[3])
                                   ELSE post_check_interval[3]
         IN  IF x[1] # "Ok"
             THEN x
             ELSE IF post_check_interval[1] # "Ok"
             THEN post_check_interval
             ELSE IF has_comma /\ is_token(T("RightBracket"), skip_new_lines(post_consume_comma))
             THEN Err("expected an element")
             ELSE call("parse_list_loop", <<skip_new_lines(post_consume_comma),
                                  Append(expressions, post_check_interval[2]),
                                  has_interval \/ ~has_comma>>)

parse_list_loop(token_details_, expressions, is_expected_end) ==
    IF token_details_ = <<>>
    THEN Err("expected the right bracket symbol")
    ELSE IF token_details_[1] = T("RightBracket")
    THEN Ok(expressions, token_details_)
    ELSE IF is_expected_end
    THEN Err("expected the right bracket symbol")
    ELSE IF token_details_[1] = T("Ellipsis")
    THEN LET e == call("continue_parse_ellipsis", <<token_details_>>)
             post_consume_comma == IF is_token(T("Comma"), e[3]) THEN Tail(e[3]) ELSE e[3]
         IN  IF e[1] # "Ok"
             THEN e
             ELSE call("parse_list_loop", <<skip_new_lines(post_consume_comma),
                                  Append(expressions, e[2]), TRUE>>)
    ELSE LET x == call("parse_expression", <<token_details_>>)
             has_interval == is_token(T("Interval"), x[3])
                             \/ is_token(T("IntervalInclusive"), x[3])
             v == call("continue_parse_interval", <<x[3]>>)
             post_check_interval ==
                 IF has_interval
                 THEN (IF v[1] # "Ok" THEN v ELSE Ok(Interval(v[2][1], x[2], v[2][2]), v[3]))
                 ELSE x
             has_comma == is_token(T("Comma"), post_check_interval[3])
             post_consume_comma == IF has_comma
                                   THEN Tail(post_check_interval[3])
                                   ELSE post_check_interval[3]
         IN  IF x[1] # "Ok"
             THEN x
             ELSE IF post_check_interval[1] # "Ok"
             THEN post_check_interval
             ELSE call("parse_list_loop", <<skip_new_lines(post_consume_comma),
                                  Append(expressions, post_check_interval[2]),
                                  has_interval \/ ~has_comma>>)

parse_list(source_token_details) ==
    LET c == consume_token(T("LeftBracket"), source_token_details)
    IN  IF c[1] # "Ok"
        THEN c
        ELSE LET l == call("parse_list_loop", <<skip_new_lines(c[3]), <<>>, FALSE>>)
             IN  IF l[1] # "Ok"
                 THEN l
                 ELSE LET e == consume_token(T("RightBracket"), l[3])
                      IN  IF e[1] # "Ok" THEN e ELSE Ok(<<"List", l[2]>>, e[3])

\* The element loop of a tuple where an ellipsis does not close the tuple.
parse_tuple_loop_ellipsis_anywhere(token_details_, expressions, is_tuple, is_expected_end) ==
    IF token_details_ = <<>>
    THEN Err("expected the right paren symbol")
    ELSE IF token_details_[1] = T("RightParen")
    THEN Ok(<<expressions, is_tuple>>, token_details_)
    ELSE IF is_expected_end
    THEN Err("expected the right paren symbol")
    ELSE IF token_details_[1] = T("Ellipsis")
    THEN LET e == call("continue_parse_ellipsis", <<token_details_>>)
             post_consume_comma == IF is_token(T("Comma"), e[3]) THEN Tail(e[3]) ELSE e[3]
         IN  IF e[1] # "Ok"
             THEN e
             ELSE call("parse_tuple_loop", <<skip_new_lines(post_consume_comma),
                                   Append(expressions, e[2]), is_tuple, is_expected_end>>)
    ELSE LET x == call("parse_expression", <<token_details_>>)
             has_comma == is_token(T("Comma"), x[3])
             post_consume_comma == IF has_comma THEN Tail(x[3]) ELSE x[3]
         IN  IF x[1] # "Ok"
             THEN x
             ELSE call("parse_tuple_loop", <<skip_new_lines(post_consume_comma),
                                   Append(expressions, x[2]),
                                   is_tuple \/ has_comma,
                                   is_expected_end \/ ~has_comma>>)

parse_tuple_loop(token_details_, expressions, is_tuple, is_expected_end) ==
    IF token_details_ = <<>>
    THEN Err("expected the right paren symbol")
    ELSE IF token_details_[1] = T("RightParen")
    THEN Ok(<<expressions, is_tuple>>, token_details_)
    ELSE IF is_expected_end
    THEN Err("expected the right paren symbol")
    ELSE IF token_details_[1] = T("Ellipsis")
    THEN LET e == call("continue_parse_ellipsis", <<token_details_>>)
             post_consume_comma == IF is_token(T("Comma"), e[3]) THEN Tail(e[3]) ELSE e[3]
         IN  IF e[1] # "Ok"
             THEN e
             ELSE call("parse_tuple_loop", <<skip_new_lines(post_consume_comma),
                                   Append(expressions, e[2]), is_tuple, TRUE>>)
    ELSE LET x == call("parse_expression", <<token_details_>>)
             has_comma == is_token(T("Comma"), x[3])
             post_consume_comma == IF has_comma THEN Tail(x[3]) ELSE x[3]
         IN  IF x[1] # "Ok"
             THEN x
             ELSE call("parse_tuple_loop", <<skip_new_lines(post_consume_comma),
                                   Append(expressions, x[2]),
                                   is_tuple \/ has_comma,
                                   is_expected_end \/ ~has_comma>>)

parse_tuple_or_parenthesized(source_token_details) ==
    LET c == consume_token(T("LeftParen"), source_token_details)
    IN  IF c[1] # "Ok"
        THEN c
        ELSE LET l == call("parse_tuple_loop", <<skip_new_lines(c[3]), <<>>, FALSE, FALSE>>)
             IN  IF l[1] # "Ok"
                 THEN l
                 ELSE LET e == consume_token(T("RightParen"), l[3])
                          expressions == l[2][1]
                          is_tuple == l[2][2]
                      IN  IF e[1] # "Ok" THEN e
                          ELSE IF Len(expressions) = 0 THEN Ok(<<"Tuple", <<>>>>, e[3])
                          ELSE IF is_tuple THEN Ok(<<"Tuple", expressions>>, e[3])
                          ELSE Ok(expressions[1], e[3])

continue_parse_interval(source_token_details) ==
    LET is_inclusive == is_token(T("IntervalInclusive"), source_token_details)
        operator_token == IF is_inclusive THEN T("IntervalInclusive") ELSE T("Interval")
        c == consume_token(operator_token, source_token_details)
        post_new_lines == skip_new_lines(c[3])
        to_expression == call("parse_expression", <<post_new_lines>>)
    IN  IF c[1] # "Ok"
        THEN c
        ELSE IF post_new_lines # <<>> /\ post_new_lines[1] \in {T("Comma"), T("RightBracket")}
        THEN (IF is_inclusive
              THEN Err("expected inclusive range end")
              ELSE Ok(<<is_inclusive, None>>, post_new_lines))
        ELSE IF to_expression[1] # "Ok"
        THEN to_expression
        ELSE Ok(<<is_inclusive, Some(to_expression[2])>>, to_expression[3])

MapEntry(key, value) == <<"MapEntry", key, value>>

\* The entry loop of a map with the rule of the list: only a comma lets another entry follow.
continue_parse_map_loop_comma_only(token_details_, entries, is_expected_end) ==
    IF token_details_ = <<>>
    THEN Err("expected the right brace symbol")
    ELSE IF token_details_[1] = T("RightBrace")
    THEN Ok(entries, token_details_)
    ELSE IF is_expected_end
    THEN Err("expected the right brace symbol")
    ELSE IF token_details_[1] = T("Ellipsis")
    THEN LET e == call("continue_parse_ellipsis", <<token_details_>>)
             post_consume_comma == IF is_token(T("Comma"), e[3]) THEN Tail(e[3]) ELSE e[3]
         IN  IF e[1] # "Ok"
             THEN e
             ELSE call("continue_parse_map_loop", <<skip_new_lines(post_consume_comma),
                                          Append(entries, MapEntry(e[2], None)), TRUE>>)
    ELSE LET k == call("parse_expression", <<token_details_>>)
             has_value == is_token(T("Colon"), k[3])
             v == call("parse_expression", <<skip_new_lines(Tail(k[3]))>>)
             one == IF has_value
                    THEN (IF v[1] # "Ok" THEN v ELSE Ok(MapEntry(k[2], Some(v[2])), v[3]))
                    ELSE Ok(MapEntry(k[2], None), k[3])
             has_comma == is_token(T("Comma"), one[3])
             has_new_line == is_token(NewLine, one[3])
             post_consume_comma == IF has_comma THEN Tail(one[3]) ELSE one[3]
         IN  IF k[1] # "Ok"
             THEN k
             ELSE IF one[1] # "Ok"
             THEN one
             ELSE call("continue_parse_map_loop", <<skip_new_lines(post_consume_comma),
                                          Append(entries, one[2]),
                                          ~has_comma>>)

continue_parse_map_loop(token_details_, entries, is_expected_end) ==
    IF token_details_ = <<>>
    THEN Err("expected the right brace symbol")
    ELSE IF token_details_[1] = T("RightBrace")
    THEN Ok(entries, token_details_)
    ELSE IF is_expected_end
    THEN Err("expected the right brace symbol")
    ELSE IF token_details_[1] = T("Ellipsis")
    THEN LET e == call("continue_parse_ellipsis", <<token_details_>>)
             post_consume_comma == IF is_token(T("Comma"), e[3]) THEN Tail(e[3]) ELSE e[3]
         IN  IF e[1] # "Ok"
             THEN e
             ELSE call("continue_parse_map_loop", <<skip_new_lines(post_consume_comma),
                                          Append(entries, MapEntry(e[2], None)), TRUE>>)
    ELSE LET k == call("parse_expression", <<token_details_>>)
             has_value == is_token(T("Colon"), k[3])
             v == call("parse_expression", <<skip_new_lines(Tail(k[3]))>>)
             one == IF has_value
                    THEN (IF v[1] # "Ok" THEN v ELSE Ok(MapEntry(k[2], Some(v[2])), v[3]))
                    ELSE Ok(MapEntry(k[2], None), k[3])
             has_comma == is_token(T("Comma"), one[3])
             has_new_line == is_token(NewLine, one[3])
             post_consume_comma == IF has_comma THEN Tail(one[3]) ELSE one[3]
         IN  IF k[1] # "Ok"
             THEN k
             ELSE IF one[1] # "Ok"
             THEN one
             ELSE call("continue_parse_map_loop", <<skip_new_lines(post_consume_comma),
                                          Append(entries, one[2]),
                                          ~has_comma /\ ~has_new_line>>)

continue_parse_map(source_token_details) ==
    LET c == consume_token(T("LeftBrace"), source_token_details)
    IN  IF c[1] # "Ok"
        THEN c
        ELSE LET l == call("continue_parse_map_loop", <<skip_new_lines(c[3]), <<>>, FALSE>>)
             IN  IF l[1] # "Ok"
                 THEN l
                 ELSE LET e == consume_token(T("RightBrace"), l[3])
                      IN  IF e[1] # "Ok" THEN e ELSE Ok(l[2], e[3])

parse_map(source_token_details) ==
    LET m == call("continue_parse_map", <<source_token_details>>)
    IN  IF m[1] # "Ok" THEN m ELSE Ok(<<"Map", m[2]>>, m[3])

\* ---- function signatures

SignParameter(data_type, name) == <<"SignParameter", data_type, name>>

parse_sign_parameters(token_details_, parameters, is_expected_end) ==
    IF token_details_ = <<>>
    THEN Err("expected the right paren symbol")
    ELSE IF token_details_[1] = T("RightParen")
    THEN Ok(parameters, token_details_)
    ELSE IF is_expected_end
    THEN Err("expected the right paren symbol")
    ELSE LET x == call("parse_expression", <<token_details_>>)
             d == convert_expression_to_data_type(x[2])
             post == x[3]
             one == IF post # <<>> /\ post[1] \in {T("Comma"), T("RightParen")}
                    THEN Ok(SignParameter(d[2], None), post)
                    ELSE IF post # <<>> /\ post[1][1] = "Identifier"
                    THEN Ok(SignParameter(d[2], Some(post[1][2])), Tail(post))
                    ELSE Err("incomplete function parameter")
             has_comma == is_token(T("Comma"), one[3])
             post_consume_comma == IF has_comma THEN Tail(one[3]) ELSE one[3]
         IN  IF x[1] # "Ok" THEN x
             ELSE IF d[1] # "Ok" THEN d
             ELSE IF one[1] # "Ok" THEN one
             ELSE call("parse_sign_parameters", <<skip_new_lines(post_consume_comma),
                                        Append(parameters, one[2]),
                                        ~has_comma>>)

parse_sign_expression(source_token_details) ==
    LET c == consume_token(T("Sign"), source_token_details)
        post_sign == skip_new_lines(c[3])
        has_generics == is_token(T("LessThan"), post_sign)
        g == IF has_generics
             THEN call("continue_parse_generic_names", <<post_sign>>)
             ELSE Ok(<<>>, post_sign)
        post_generics == IF has_generics THEN skip_new_lines(g[3]) ELSE g[3]
        p == consume_token(T("LeftParen"), post_generics)
        l == call("parse_sign_parameters", <<skip_new_lines(p[3]), <<>>, FALSE>>)
        e == consume_token(T("RightParen"), l[3])
        clauses == call("parse_type_and_which_clauses", <<skip_new_lines(e[3]), None, <<>>>>)
    IN  IF c[1] # "Ok" THEN c
        ELSE IF g[1] # "Ok" THEN g
        ELSE IF p[1] # "Ok" THEN p
        ELSE IF l[1] # "Ok" THEN l
        ELSE IF e[1] # "Ok" THEN e
        ELSE IF clauses[1] # "Ok" THEN clauses
        ELSE Ok(<<"Sign", l[2], clauses[2][1], g[2], clauses[2][2]>>, clauses[3])

\* ---- `only` and `which` clauses

continue_parse_only_expression(source_token_details) ==
    LET c == consume_token(T("Only"), source_token_details)
    IN  IF c[1] # "Ok"
        THEN c
        ELSE call("continue_parse_expression_block_or_single_expression", <<skip_new_lines(c[3])>>)

continue_parse_which_entry_data_type_list(token_details_, data_types) ==
    LET p == call("parse_primary_expression", <<token_details_>>)
        d == convert_expression_to_data_type(p[2])
    IN  IF p[1] # "Ok" THEN p
        ELSE IF d[1] # "Ok" THEN d
        ELSE IF is_token(T("Plus"), p[3])
        THEN call("continue_parse_which_entry_data_type_list", <<skip_new_lines(Tail(p[3])),
                                                       Append(data_types, d[2])>>)
        ELSE Ok(Append(data_types, d[2]), p[3])

continue_parse_which_entry(source_token_details) ==
    IF source_token_details # <<>> /\ source_token_details[1][1] = "Identifier"
    THEN LET name == source_token_details[1][2]
             post_colon == consume_token(T("Colon"), Tail(source_token_details))
             post_new_lines_after_colon == skip_new_lines(post_colon[3])
             l == call("continue_parse_which_entry_data_type_list", <<
                      skip_new_lines(Tail(post_new_lines_after_colon)), <<>>>>)
             p == call("parse_primary_expression", <<post_new_lines_after_colon>>)
             d == convert_expression_to_data_type(p[2])
         IN  IF post_colon[1] # "Ok" THEN post_colon
             ELSE IF post_new_lines_after_colon = <<>>
             THEN Err("expected which expression entry value")
             ELSE IF post_new_lines_after_colon[1] = T("Limit")
             THEN (IF l[1] # "Ok" THEN l ELSE Ok(<<"WhichEntryLimit", name, l[2]>>, l[3]))
             ELSE IF p[1] # "Ok" THEN p
             ELSE IF d[1] # "Ok" THEN d
             ELSE Ok(<<"WhichEntryType", name, d[2]>>, p[3])
    ELSE Err("invalid name of which expression entry")

continue_parse_which_entries(token_details_, entries, is_expected_end) ==
    IF token_details_ = <<>>
    THEN Err("expected the right brace symbol")
    ELSE IF token_details_[1] = T("RightBrace")
    THEN Ok(entries, token_details_)
    ELSE IF is_expected_end
    THEN Err("expected the right brace symbol")
    ELSE LET w == call("continue_parse_which_entry", <<token_details_>>)
             has_comma == is_token(T("Comma"), w[3])
             has_new_line == is_token(NewLine, w[3])
             post_consume_comma == IF has_comma THEN Tail(w[3]) ELSE w[3]
         IN  IF w[1] # "Ok"
             THEN w
             ELSE call("continue_parse_which_entries", <<skip_new_lines(post_consume_comma),
                                               Append(entries, w[2]),
                                               ~has_comma /\ ~has_new_line>>)

continue_parse_which_expression(source_token_details) ==
    LET c == consume_token(T("Which"), source_token_details)
        token_details_ == skip_new_lines(c[3])
        l == call("continue_parse_which_entries", <<skip_new_lines(Tail(token_details_)), <<>>, FALSE>>)
        e == consume_token(T("RightBrace"), l[3])
        w == call("continue_parse_which_entry", <<token_details_>>)
    IN  IF c[1] # "Ok" THEN c
        ELSE IF token_details_ = <<>> THEN Err("expected which expression")
        ELSE IF token_details_[1] = T("LeftBrace")
        THEN (IF l[1] # "Ok" THEN l
              ELSE IF e[1] # "Ok" THEN e
              ELSE Ok(l[2], e[3]))
        ELSE IF w[1] # "Ok" THEN w
        ELSE Ok(<<w[2]>>, w[3])

\* ---- program and statements

\* parse_program_loop that returns the program after its first statement.
parse_program_loop_first_statement(token_details_, statements) ==
    LET post_new_lines == skip_new_lines(token_details_)
    IN  IF post_new_lines = <<>>
        THEN Ok(<<"Program", statements>>, <<>>)
        ELSE LET s == call("parse_statement", <<post_new_lines>>)
             IN  IF s[1] # "Ok"
                 THEN s
                 ELSE Ok(<<"Program", Append(statements, s[2])>>, <<>>)

parse_program_loop(token_details_, statements) ==
    LET post_new_lines == skip_new_lines(token_details_)
    IN  IF post_new_lines = <<>>
        THEN Ok(<<"Program", statements>>, <<>>)
        ELSE LET s == call("parse_statement", <<post_new_lines>>)
             IN  IF s[1] # "Ok"
                 THEN s
                 ELSE call("parse_program_loop", <<s[3], Append(statements, s[2])>>)

parse_program(source_token_details) == call("parse_program_loop", <<source_token_details, <<>>>>)

parse(source_token_details) == call("parse_program", <<source_token_details>>)

parse_empty_function_declaration(source_token_details) == Panic("not yet implemented")

parse_pattern_function_declaration(source_token_details) == Panic("not yet implemented")

parse_use_statement(source_token_details) == Panic("not yet implemented")

parse_const_statement(source_token_details) == Panic("not yet implemented")

parse_struct(source_token_details) == Panic("not yet implemented")

parse_union(source_token_details) == Panic("not yet implemented")

parse_trait_declaration(source_token_details) == Panic("not yet implemented")

parse_impl_statement(source_token_details) == Panic("not yet implemented")

parse_alias_statement(source_token_details) == Panic("not yet implemented")

parse_statement(source_token_details) ==
    IF source_token_details = <<>>
    THEN Panic("index out of bounds")
    ELSE LET kind == source_token_details[1][1]
         IN  CASE kind = "Function" -> call("parse_function_declaration", <<source_token_details>>)
               [] kind = "Empty" -> call("parse_empty_function_declaration", <<source_token_details>>)
               [] kind = "Pattern" -> call("parse_pattern_function_declaration", <<source_token_details>>)
               [] kind = "Use" -> call("parse_use_statement", <<source_token_details>>)
               [] kind = "Const" -> call("parse_const_statement", <<source_token_details>>)
               [] kind = "Struct" -> call("parse_struct", <<source_token_details>>)
               [] kind = "Union" -> call("parse_union", <<source_token_details>>)
               [] kind = "Trait" -> call("parse_trait_declaration", <<source_token_details>>)
               [] kind = "Impl" -> call("parse_impl_statement", <<source_token_details>>)
               [] kind = "Alias" -> call("parse_alias_statement", <<source_token_details>>)
               [] OTHER -> call("parse_expression_statement", <<source_token_details>>)

FunctionParameter(data_type, name, value) == <<"FunctionParameter", data_type, name, value>>

parse_function_parameters(token_details_, parameters, is_expected_end) ==
    IF token_details_ = <<>>
    THEN Err("expected the right paren symbol")
    ELSE IF token_details_[1] = T("RightParen")
    THEN Ok(parameters, token_details_)
    ELSE IF is_expected_end
    THEN Err("expected the right paren symbol")
    ELSE LET x == call("parse_expression", <<token_details_>>)
             d == convert_expression_to_data_type(x[2])
             has_name == x[3] # <<>> /\ x[3][1][1] = "Identifier"
             post_parameter_name == Tail(x[3])
             has_default == is_token(T("Assign"), post_parameter_name)
             v == call("parse_expression", <<skip_new_lines(Tail(post_parameter_name))>>)
             default_value == IF has_default
                              THEN (IF v[1] # "Ok" THEN v ELSE Ok(Some(v[2]), v[3]))
                              ELSE Ok(None, post_parameter_name)
             has_comma == is_token(T("Comma"), default_value[3])
             post_consume_comma == IF has_comma
                                   THEN Tail(default_value[3])
                                   ELSE default_value[3]
         IN  IF x[1] # "Ok" THEN x
             ELSE IF d[1] # "Ok" THEN d
             ELSE IF ~has_name THEN Err("incomplete function parameter")
             ELSE IF default_value[1] # "Ok" THEN default_value
             ELSE call("parse_function_parameters", <<
                      skip_new_lines(post_consume_comma),
                      Append(parameters, FunctionParameter(d[2], x[3][1][2], default_value[2])),
                      ~has_comma>>)

parse_function_declaration(source_token_details) ==
    LET c == consume_token(T("Function"), source_token_details)
        function_name == call("continue_parse_identifier", <<skip_new_lines(c[3])>>)
        p == consume_token(T("LeftParen"), skip_new_lines(function_name[3]))
        l == call("parse_function_parameters", <<skip_new_lines(p[3]), <<>>, FALSE>>)
        e == consume_token(T("RightParen"), l[3])
        clauses == call("parse_type_and_which_clauses", <<skip_new_lines(e[3]), None, <<>>>>)
        post_assignment == IF is_token(T("Assign"), clauses[3])
                           THEN skip_new_lines(Tail(clauses[3]))
                           ELSE clauses[3]
        body == call("continue_parse_expression_block_or_single_expression", <<post_assignment>>)
    IN  IF c[1] # "Ok" THEN c
        ELSE IF function_name[1] # "Ok" THEN function_name
        ELSE IF p[1] # "Ok" THEN p
        ELSE IF l[1] # "Ok" THEN l
        ELSE IF e[1] # "Ok" THEN e
        ELSE IF clauses[1] # "Ok" THEN clauses
        ELSE IF body[1] # "Ok" THEN body
        ELSE Ok(<<"FunctionDeclaration", function_name[2][3], function_name[2][4], l[2],
                  clauses[2][1], clauses[2][2], body[2]>>, body[3])

parse_expression_statement(source_token_details) ==
    LET x == call("parse_expression", <<source_token_details>>)
    IN  IF x[1] # "Ok"
        THEN x
        ELSE LET n == consume_new_line_or_end_of_file(x[3])
             IN  IF n[1] # "Ok" THEN n ELSE Ok(<<"Expression", x[2]>>, n[3])

\* ---- expressions

parse_expression(source_token_details) ==
    IF source_token_details = <<>>
    THEN Err("expected expression")
    ELSE LET kind == source_token_details[1][1]
         IN  CASE kind = "Do" -> call("parse_do_expression", <<source_token_details>>)
               [] kind = "Join" -> call("parse_join_expression", <<source_token_details>>)
               [] kind = "Let" -> call("parse_let_expression", <<source_token_details>>)
               [] kind = "If" -> call("parse_if_expression", <<source_token_details>>)
               [] kind = "For" -> call("parse_for_expression", <<source_token_details>>)
               [] kind = "Next" -> call("parse_next_expression", <<source_token_details>>)
               [] kind = "Each" -> call("parse_each_expression", <<source_token_details>>)
               [] kind = "Branch" -> call("parse_branch_expression", <<source_token_details>>)
               [] kind = "Match" -> call("parse_match_expression", <<source_token_details>>)
               [] OTHER -> call("parse_pipe_expression", <<source_token_details>>)

BlockExpression(is_explicit, body) == <<"BlockExpression", is_explicit, body>>

continue_parse_expression_block_loop(token_details_, expressions) ==
    IF is_token(T("RightBrace"), token_details_)
    THEN Ok(expressions, token_details_)
    ELSE LET x == call("parse_expression", <<token_details_>>)
             post_consume_comma == IF is_token(T("Comma"), x[3]) THEN Tail(x[3]) ELSE x[3]
         IN  IF x[1] # "Ok"
             THEN x
             ELSE call("continue_parse_expression_block_loop", <<skip_new_lines(post_consume_comma),
                                                       Append(expressions, x[2])>>)

continue_parse_expression_block(source_token_details) ==
    LET c == consume_token(T("LeftBrace"), source_token_details)
    IN  IF c[1] # "Ok"
        THEN c
        ELSE LET l == call("continue_parse_expression_block_loop", <<skip_new_lines(c[3]), <<>>>>)
             IN  IF l[1] # "Ok"
                 THEN l
                 ELSE LET e == consume_token(T("RightBrace"), l[3])
                      IN  IF e[1] # "Ok" THEN e ELSE Ok(l[2], e[3])

continue_parse_expression_block_or_single_expression(source_token_details) ==
    IF source_token_details = <<>>
    THEN Err("expected an expression or an expression block")
    ELSE IF source_token_details[1] = T("LeftBrace")
    THEN LET b == call("continue_parse_expression_block", <<source_token_details>>)
         IN  IF b[1] # "Ok" THEN b ELSE Ok(BlockExpression(FALSE, b[2]), b[3])
    ELSE call("parse_expression", <<source_token_details>>)

parse_do_expression(source_token_details) ==
    LET c == consume_token(T("Do"), source_token_details)
        b == call("continue_parse_expression_block", <<skip_new_lines(c[3])>>)
    IN  IF c[1] # "Ok" THEN c
        ELSE IF b[1] # "Ok" THEN b
        ELSE Ok(BlockExpression(TRUE, b[2]), b[3])

parse_join_expression(source_token_details) ==
    LET c == consume_token(T("Join"), source_token_details)
        b == call("continue_parse_expression_block", <<skip_new_lines(c[3])>>)
    IN  IF c[1] # "Ok" THEN c
        ELSE IF b[1] # "Ok" THEN b
        ELSE Ok(<<"JoinExpression", b[2]>>, b[3])

parse_let_expression(source_token_details) ==
    LET c == consume_token(T("Let"), source_token_details)
        maybe_lhs == call("parse_mono_expression", <<skip_new_lines(c[3])>>)
        has_data_type == ~is_token(T("Assign"), maybe_lhs[3])
        d == convert_expression_to_data_type(maybe_lhs[2])
        p == call("parse_primary_expression", <<maybe_lhs[3]>>)
        lhs == IF has_data_type
               THEN (IF d[1] # "Ok" THEN d
                     ELSE IF p[1] # "Ok" THEN p
                     ELSE Ok(<<Some(d[2]), p[2]>>, p[3]))
               ELSE Ok(<<None, maybe_lhs[2]>>, maybe_lhs[3])
        a == consume_token(T("Assign"), skip_new_lines(lhs[3]))
        rhs == call("parse_expression", <<skip_new_lines(a[3])>>)
    IN  IF c[1] # "Ok" THEN c
        ELSE IF maybe_lhs[1] # "Ok" THEN maybe_lhs
        ELSE IF lhs[1] # "Ok" THEN lhs
        ELSE IF ~is_valid_left_hand_side(lhs[2][2]) THEN Err("invalid left-hand-side value")
        ELSE IF a[1] # "Ok" THEN a
        ELSE IF rhs[1] # "Ok" THEN rhs
        ELSE Ok(<<"LetExpression", lhs[2][1], lhs[2][2], rhs[2]>>, rhs[3])

parse_if_expression(source_token_details) ==
    LET c == consume_token(T("If"), source_token_details)
        testing == call("parse_expression", <<skip_new_lines(c[3])>>)
        post_testing == skip_new_lines(testing[3])
        has_where == is_token(T("Where"), post_testing)
        w == call("continue_parse_where_expression", <<post_testing>>)
        where_exp == IF has_where
                     THEN (IF w[1] # "Ok" THEN w ELSE Ok(Some(w[2]), w[3]))
                     ELSE Ok(None, post_testing)
        t == skip_new_lines_and_consume_token(T("Then"), where_exp[3])
        consequent == call("continue_parse_expression_block_or_single_expression", <<skip_new_lines(t[3])>>)
        has_else == is_token_ignore_new_lines(T("Else"), consequent[3])
        e == skip_new_lines_and_consume_token(T("Else"), consequent[3])
        a == call("continue_parse_expression_block_or_single_expression", <<skip_new_lines(e[3])>>)
        alternate == IF has_else
                     THEN (IF e[1] # "Ok" THEN e
                           ELSE IF a[1] # "Ok" THEN a
                           ELSE Ok(Some(a[2]), a[3]))
                     ELSE Ok(None, consequent[3])
    IN  IF c[1] # "Ok" THEN c
        ELSE IF testing[1] # "Ok" THEN testing
        ELSE IF where_exp[1] # "Ok" THEN where_exp
        ELSE IF t[1] # "Ok" THEN t
        ELSE IF consequent[1] # "Ok" THEN consequent
        ELSE IF alternate[1] # "Ok" THEN alternate
        ELSE Ok(<<"IfExpression", testing[2], where_exp[2], consequent[2], alternate[2]>>,
                alternate[3])

continue_parse_where_expression(source_token_details) ==
    LET c == consume_token(T("Where"), source_token_details)
    IN  IF c[1] # "Ok"
        THEN c
        ELSE call("continue_parse_expression_block_or_single_expression", <<skip_new_lines(c[3])>>)

\* The subject parsed as an expression whatever follows it.
parse_identifier_before_brace_as_expression(token_details_) ==
    call("parse_expression", <<token_details_>>)

\* The `match call("continue_parse_identifier", <<..>>) { Ok(..) if is_token(LeftBrace, ..) => .., _ =>
\* call("parse_expression", <<..>>)? }` step shared by `for`, `each` and `match`: an identifier directly
\* followed by `{` is taken as it is, anything else is parsed as an expression.
parse_identifier_before_brace(token_details_) ==
    LET i == call("continue_parse_identifier", <<token_details_>>)
    IN  IF i[1] = "Panic" THEN i
        ELSE IF i[1] = "Ok" /\ is_token(T("LeftBrace"), i[3]) THEN Ok(i[2], i[3])
        ELSE call("parse_expression", <<token_details_>>)

\* The `let` binding at the head of a `for` expression, up to and including `=`.
parse_let_binding(source_token_details) ==
    LET c == consume_token(T("Let"), source_token_details)
        maybe_lhs == call("parse_mono_expression", <<skip_new_lines(c[3])>>)
        has_data_type == ~is_token(T("Assign"), maybe_lhs[3])
        d == convert_expression_to_data_type(maybe_lhs[2])
        p == call("parse_primary_expression", <<maybe_lhs[3]>>)
        lhs == IF has_data_type
               THEN (IF d[1] # "Ok" THEN d
                     ELSE IF p[1] # "Ok" THEN p
                     ELSE Ok(<<Some(d[2]), p[2]>>, p[3]))
               ELSE Ok(<<None, maybe_lhs[2]>>, maybe_lhs[3])
        a == consume_token(T("Assign"), skip_new_lines(lhs[3]))
    IN  IF c[1] # "Ok" THEN c
        ELSE IF maybe_lhs[1] # "Ok" THEN maybe_lhs
        ELSE IF lhs[1] # "Ok" THEN lhs
        ELSE IF ~is_valid_left_hand_side(lhs[2][2]) THEN Err("invalid left-hand-side value")
        ELSE IF a[1] # "Ok" THEN a
        ELSE Ok(lhs[2], skip_new_lines(a[3]))

parse_for_expression(source_token_details) ==
    LET c == consume_token(T("For"), source_token_details)
        b == call("parse_let_binding", <<skip_new_lines(c[3])>>)
        rhs == call("parse_identifier_before_brace", <<b[3]>>)
        body_exp == call("continue_parse_expression_block_or_single_expression", <<skip_new_lines(rhs[3])>>)
    IN  IF c[1] # "Ok" THEN c
        ELSE IF b[1] # "Ok" THEN b
        ELSE IF rhs[1] # "Ok" THEN rhs
        ELSE IF body_exp[1] # "Ok" THEN body_exp
        ELSE Ok(<<"ForExpression", <<"LetExpression", b[2][1], b[2][2], rhs[2]>>, body_exp[2]>>,
                body_exp[3])

parse_next_expression(source_token_details) ==
    LET c == consume_token(T("Next"), source_token_details)
        x == call("parse_expression", <<skip_new_lines(c[3])>>)
    IN  IF c[1] # "Ok" THEN c
        ELSE IF x[1] # "Ok" THEN x
        ELSE Ok(<<"NextExpression", x[2]>>, x[3])

parse_each_expression(source_token_details) ==
    LET c == consume_token(T("Each"), source_token_details)
        variable == call("parse_mono_expression", <<skip_new_lines(c[3])>>)
        i == consume_token(T("In"), skip_new_lines(variable[3]))
        object == call("parse_identifier_before_brace", <<skip_new_lines(i[3])>>)
        body_exp ==
            call("continue_parse_expression_block_or_single_expression", <<skip_new_lines(object[3])>>)
    IN  IF c[1] # "Ok" THEN c
        ELSE IF variable[1] # "Ok" THEN variable
        ELSE IF ~is_valid_left_hand_side(variable[2]) THEN Err("invalid left-hand-side value")
        ELSE IF i[1] # "Ok" THEN i
        ELSE IF object[1] # "Ok" THEN object
        ELSE IF body_exp[1] # "Ok" THEN body_exp
        ELSE Ok(<<"EachExpression", variable[2], object[2], body_exp[2]>>, body_exp[3])

\* ---- branch

continue_parse_branch_case(source_token_details) ==
    LET c == consume_token(T("Case"), source_token_details)
        testing_exp == call("parse_expression", <<skip_new_lines(c[3])>>)
        post_testing == skip_new_lines(testing_exp[3])
        has_where == is_token(T("Where"), post_testing)
        w == call("continue_parse_where_expression", <<post_testing>>)
        where_exp == IF has_where
                     THEN (IF w[1] # "Ok" THEN w ELSE Ok(Some(w[2]), w[3]))
                     ELSE Ok(None, post_testing)
        colon == consume_token(T("Colon"), skip_new_lines(where_exp[3]))
        consequent_exp == call("continue_parse_expression_block_or_single_expression", <<colon[3]>>)
    IN  IF c[1] # "Ok" THEN c
        ELSE IF testing_exp[1] # "Ok" THEN testing_exp
        ELSE IF where_exp[1] # "Ok" THEN where_exp
        ELSE IF colon[1] # "Ok" THEN colon
        ELSE IF consequent_exp[1] # "Ok" THEN consequent_exp
        ELSE Ok(<<"BranchCase", testing_exp[2], where_exp[2], consequent_exp[2]>>,
                consequent_exp[3])

continue_parse_default_case(source_token_details) ==
    LET c == consume_token(T("Default"), source_token_details)
        colon == consume_token(T("Colon"), c[3])
    IN  IF c[1] # "Ok" THEN c
        ELSE IF colon[1] # "Ok" THEN colon
        ELSE call("continue_parse_expression_block_or_single_expression", <<skip_new_lines(colon[3])>>)

parse_branch_cases_keep_going(token_details_, cases, default_exp, is_expected_end) ==
    IF token_details_ = <<>>
    THEN Err("expected the right brace symbol")
    ELSE IF token_details_[1] = T("RightBrace")
    THEN Ok(<<cases, default_exp>>, token_details_)
    ELSE IF is_token(T("Case"), token_details_)
    THEN LET k == call("continue_parse_branch_case", <<token_details_>>)
             post_comma == IF is_token(T("Comma"), k[3]) THEN Tail(k[3]) ELSE k[3]
         IN  IF k[1] # "Ok"
             THEN k
             ELSE call("parse_branch_cases", <<skip_new_lines(post_comma), Append(cases, k[2]),
                                     default_exp, is_expected_end>>)
    ELSE IF is_token(T("Default"), token_details_)
    THEN LET d == call("continue_parse_default_case", <<token_details_>>)
             post_comma == IF is_token(T("Comma"), d[3]) THEN Tail(d[3]) ELSE d[3]
         IN  IF d[1] # "Ok"
             THEN d
             ELSE call("parse_branch_cases", <<skip_new_lines(post_comma), cases, Some(d[2]), TRUE>>)
    ELSE Err("invalid branch expression")

parse_branch_cases(token_details_, cases, default_exp, is_expected_end) ==
    IF token_details_ = <<>>
    THEN Err("expected the right brace symbol")
    ELSE IF token_details_[1] = T("RightBrace")
    THEN Ok(<<cases, default_exp>>, token_details_)
    ELSE IF is_expected_end
    THEN Err("expected the right brace symbol")
    ELSE IF is_token(T("Case"), token_details_)
    THEN LET k == call("continue_parse_branch_case", <<token_details_>>)
             post_comma == IF is_token(T("Comma"), k[3]) THEN Tail(k[3]) ELSE k[3]
         IN  IF k[1] # "Ok"
             THEN k
             ELSE call("parse_branch_cases", <<skip_new_lines(post_comma), Append(cases, k[2]),
                                     default_exp, is_expected_end>>)
    ELSE IF is_token(T("Default"), token_details_)
    THEN LET d == call("continue_parse_default_case", <<token_details_>>)
             post_comma == IF is_token(T("Comma"), d[3]) THEN Tail(d[3]) ELSE d[3]
         IN  IF d[1] # "Ok"
             THEN d
             ELSE call("parse_branch_cases", <<skip_new_lines(post_comma), cases, Some(d[2]), TRUE>>)
    ELSE Err("invalid branch expression")

parse_branch_expression(source_token_details) ==
    LET c == consume_token(T("Branch"), source_token_details)
        post_branch == skip_new_lines(c[3])
        has_where == is_token(T("Where"), post_branch)
        w == call("continue_parse_where_expression", <<post_branch>>)
        where_exp == IF has_where
                     THEN (IF w[1] # "Ok" THEN w ELSE Ok(Some(w[2]), skip_new_lines(w[3])))
                     ELSE Ok(None, post_branch)
        b == consume_token(T("LeftBrace"), where_exp[3])
        l == call("parse_branch_cases", <<skip_new_lines(b[3]), <<>>, None, FALSE>>)
        e == consume_token(T("RightBrace"), l[3])
    IN  IF c[1] # "Ok" THEN c
        ELSE IF where_exp[1] # "Ok" THEN where_exp
        ELSE IF b[1] # "Ok" THEN b
        ELSE IF l[1] # "Ok" THEN l
        ELSE IF e[1] # "Ok" THEN e
        ELSE Ok(<<"BranchExpression", where_exp[2], l[2][1], l[2][2]>>, e[3])

\* ---- match

\* The optional `identifier @` prefix of a match case; the speculative parse is discarded
\* unless it yields an identifier followed by `@`.
continue_parse_match_case_variable(token_details_) ==
    IF any_token({T("In"), T("Into"), T("Regular"), T("Template")}, token_details_)
    THEN Ok(None, token_details_)
    ELSE LET p == call("parse_primary_expression", <<token_details_>>)
         IN  IF p[1] = "Panic" THEN p
             ELSE IF p[1] = "Ok" /\ p[2][1] = "Identifier" /\ is_token(T("At"), p[3])
             THEN Ok(Some(p[2][3]), skip_new_lines(Tail(p[3])))
             ELSE Ok(None, token_details_)

\* The string operand of a `regular` or `template` pattern.
pattern_string(s) ==
    IF s[1] = "Literal" /\ s[2][1] = "GeneralString"
    THEN Ok(s[2][2], <<>>)
    ELSE Err("invalid pattern expression")

continue_parse_match_case_pattern(token_details_) ==
    IF token_details_ = <<>>
    THEN Ok(None, token_details_)
    ELSE LET kind == token_details_[1][1]
             post_keyword == skip_new_lines(Tail(token_details_))
             p == call("parse_primary_expression", <<post_keyword>>)
             d == convert_expression_to_data_type(p[2])
             q == call("parse_primary_expression", <<p[3]>>)
             s == pattern_string(p[2])
             t == call("parse_primary_expression", <<skip_new_lines(p[3])>>)
             lhs == call("parse_mono_expression", <<token_details_>>)
         IN  CASE kind \in {"Only", "Where", "Colon"} -> Ok(None, token_details_)
               [] kind = "In" ->
                    IF p[1] # "Ok" THEN p
                    ELSE Ok(Some(<<"In", p[2]>>), p[3])
               [] kind = "Into" ->
                    IF p[1] # "Ok" THEN p
                    ELSE IF d[1] # "Ok" THEN d
                    ELSE IF q[1] # "Ok" THEN q
                    ELSE IF q[2][1] = "Identifier"
                    THEN Ok(Some(<<"Into", d[2], q[2][3]>>), q[3])
                    ELSE Err("invalid into pattern expression")
               [] kind = "Regular" ->
                    IF p[1] # "Ok" THEN p
                    ELSE IF s[1] # "Ok" THEN s
                    ELSE IF t[1] # "Ok" THEN t
                    ELSE IF t[2][1] = "Tuple"
                    THEN Ok(Some(<<"Regular", s[2], t[2]>>), t[3])
                    ELSE Err("invalid regular pattern expression")
               [] kind = "Template" ->
                    IF p[1] # "Ok" THEN p
                    ELSE IF s[1] # "Ok" THEN s
                    ELSE Ok(Some(<<"Template", s[2]>>), p[3])
               [] OTHER ->
                    IF lhs[1] # "Ok" THEN lhs
                    ELSE IF ~is_valid_left_hand_side(lhs[2])
                    THEN Err("invalid pattern expression")
                    ELSE Ok(Some(<<"Primary", lhs[2]>>), lhs[3])

\* The loop over the `only` and `where` clauses of a match case.
continue_parse_match_case_clauses(token_details_, only, where_exp) ==
    IF is_token(T("Only"), token_details_)
    THEN LET o == call("continue_parse_only_expression", <<token_details_>>)
         IN  IF o[1] # "Ok"
             THEN o
             ELSE call("continue_parse_match_case_clauses", <<skip_new_lines(o[3]), Some(o[2]), where_exp>>)
    ELSE IF is_token(T("Where"), token_details_)
    THEN LET w == call("continue_parse_where_expression", <<token_details_>>)
         IN  IF w[1] # "Ok"
             THEN w
             ELSE call("continue_parse_match_case_clauses", <<skip_new_lines(w[3]), only, Some(w[2])>>)
    ELSE Ok(<<only, where_exp>>, token_details_)

continue_parse_match_case(source_token_details) ==
    LET c == consume_token(T("Case"), source_token_details)
        post_case == skip_new_lines(c[3])
        variable == call("continue_parse_match_case_variable", <<post_case>>)
        pattern == call("continue_parse_match_case_pattern", <<variable[3]>>)
        clauses == call("continue_parse_match_case_clauses", <<skip_new_lines(pattern[3]), None, None>>)
        colon == consume_token(T("Colon"), clauses[3])
        consequent_exp == call("continue_parse_expression_block_or_single_expression", <<colon[3]>>)
    IN  IF c[1] # "Ok" THEN c
        ELSE IF any_token({T("Only"), T("Where")}, post_case)
        THEN Err("invalid match case expression")
        ELSE IF variable[1] # "Ok" THEN variable
        ELSE IF pattern[1] # "Ok" THEN pattern
        ELSE IF clauses[1] # "Ok" THEN clauses
        ELSE IF colon[1] # "Ok" THEN colon
        ELSE IF consequent_exp[1] # "Ok" THEN consequent_exp
        ELSE Ok(<<"MatchCase", variable[2], pattern[2], clauses[2][1], clauses[2][2],
                  consequent_exp[2]>>, consequent_exp[3])

parse_match_cases(token_details_, cases, default_exp, is_expected_end) ==
    IF token_details_ = <<>>
    THEN Err("expected the right brace symbol")
    ELSE IF token_details_[1] = T("RightBrace")
    THEN Ok(<<cases, default_exp>>, token_details_)
    ELSE IF is_expected_end
    THEN Err("expected the right brace symbol")
    ELSE IF is_token(T("Case"), token_details_)
    THEN LET k == call("continue_parse_match_case", <<token_details_>>)
             post_comma == IF is_token(T("Comma"), k[3]) THEN Tail(k[3]) ELSE k[3]
         IN  IF k[1] # "Ok"
             THEN k
             ELSE call("parse_match_cases", <<skip_new_lines(post_comma), Append(cases, k[2]),
                                    default_exp, is_expected_end>>)
    ELSE IF is_token(T("Default"), token_details_)
    THEN LET d == call("continue_parse_default_case", <<token_details_>>)
             post_comma == IF is_token(T("Comma"), d[3]) THEN Tail(d[3]) ELSE d[3]
         IN  IF d[1] # "Ok"
             THEN d
             ELSE call("parse_match_cases", <<skip_new_lines(post_comma), cases, Some(d[2]), TRUE>>)
    ELSE Err("invalid match expression")

parse_match_expression(source_token_details) ==
    LET c == consume_token(T("Match"), source_token_details)
        object == call("parse_identifier_before_brace", <<skip_new_lines(c[3])>>)
        post_object == skip_new_lines(object[3])
        has_where == is_token(T("Where"), post_object)
        w == call("continue_parse_where_expression", <<post_object>>)
        where_exp == IF has_where
                     THEN (IF w[1] # "Ok" THEN w ELSE Ok(Some(w[2]), skip_new_lines(w[3])))
                     ELSE Ok(None, post_object)
        b == consume_token(T("LeftBrace"), where_exp[3])
        l == call("parse_match_cases", <<skip_new_lines(b[3]), <<>>, None, FALSE>>)
        e == consume_token(T("RightBrace"), l[3])
    IN  IF c[1] # "Ok" THEN c
        ELSE IF object[1] # "Ok" THEN object
        ELSE IF where_exp[1] # "Ok" THEN where_exp
        ELSE IF b[1] # "Ok" THEN b
        ELSE IF l[1] # "Ok" THEN l
        ELSE IF e[1] # "Ok" THEN e
        ELSE Ok(<<"MatchExpression", object[2], where_exp[2], l[2][1], l[2][2]>>, e[3])

\* Every call of a parsing function from another parsing function goes through `call`,
\* which dispatches on the function's name; `f` is also how a function is passed as the
\* `next_parse_function` argument of the generic binary parsers.
\* ---- calls
\*
\* The grammar's chain of functions, outermost first: each one except parse_negative_expression
\* (which first looks for `-`) and parse_primary_expression (which dispatches on the first
\* token) opens with a call of the one after it on its own source_token_details.
descent ==
    <<"parse_pipe_expression",
      "parse_logic_or_expression",
      "parse_logic_and_expression",
      "parse_equality_expression",
      "parse_relational_expression",
      "parse_named_operator_expression",
      "parse_concat_expression",
      "parse_additive_expression",
      "parse_multiplicative_expression",
      "parse_optional_or_expression",
      "parse_optional_and_expression",
      "parse_combine_expression",
      "parse_cast_expression",
      "parse_negative_expression",
      "parse_unwrap_expression",
      "parse_mono_expression",
      "parse_function_call_expression",
      "parse_member_or_slice_expression",
      "parse_constructor_expression",
      "parse_primary_expression">>

opens_with_next(f) ==
    /\ \E i \in 1..Len(descent) : descent[i] = f
    /\ f \notin {"parse_negative_expression", "parse_primary_expression"}

position(f) == CHOOSE i \in 1..Len(descent) : descent[i] = f

\* The last of the consecutive functions, from descent[first] on, that open with the next one.
innermost(first) ==
    CHOOSE last \in first..Len(descent) :
        /\ \A i \in first..last : opens_with_next(descent[i])
        /\ ~opens_with_next(descent[last + 1])

\* The function `f` continues after its opening call returned `opening`.
resume(f, opening) ==
    CASE f = "parse_pipe_expression" -> parse_pipe_expression(opening)
      [] f = "parse_logic_or_expression" -> parse_logic_or_expression(opening)
      [] f = "parse_logic_and_expression" -> parse_logic_and_expression(opening)
      [] f = "parse_equality_expression" -> parse_equality_expression(opening)
      [] f = "parse_relational_expression" -> parse_relational_expression(opening)
      [] f = "parse_named_operator_expression" -> parse_named_operator_expression(opening)
      [] f = "parse_concat_expression" -> parse_concat_expression(opening)
      [] f = "parse_additive_expression" -> parse_additive_expression(opening)
      [] f = "parse_multiplicative_expression" -> parse_multiplicative_expression(opening)
      [] f = "parse_optional_or_expression" -> parse_optional_or_expression(opening)
      [] f = "parse_optional_and_expression" -> parse_optional_and_expression(opening)
      [] f = "parse_combine_expression" -> parse_combine_expression(opening)
      [] f = "parse_cast_expression" -> parse_cast_expression(opening)
      [] f = "parse_unwrap_expression" -> parse_unwrap_expression(opening)
      [] f = "parse_mono_expression" -> parse_mono_expression(opening)
      [] f = "parse_function_call_expression" -> parse_function_call_expression(opening)
      [] f = "parse_member_or_slice_expression" -> parse_member_or_slice_expression(opening)
      [] f = "parse_constructor_expression" -> parse_constructor_expression(opening)

\* descent[last + 1] has returned `opening` to descent[last]; the value that reaches the caller
\* of descent[first].  A result other than Ok leaves every function through its `?`.
RECURSIVE return_through(_, _, _)
return_through(first, last, opening) ==
    IF last < first \/ opening[1] # "Ok"
    THEN opening
    ELSE return_through(first, last - 1, resume(descent[last], opening))

\* `call(f, args)` is the call f(args...) of a parser function.  A function that opens with
\* a call of the next one is entered through the whole run of opening calls it starts: the
\* innermost of them is made first and its result handed outwards.

call(f, args) ==
    CASE opens_with_next(f) ->
            LET first == position(f)
                last == innermost(first)
            IN  return_through(first, last, call(descent[last + 1], args))
      [] f = "continue_parse_imaginary" -> continue_parse_imaginary(args[1])
      [] f = "parse_literal" -> parse_literal(args[1])
      [] f = "continue_parse_ellipsis" -> continue_parse_ellipsis(args[1])
      [] f = "continue_parse_identifier_names" -> continue_parse_identifier_names(args[1], args[2])
      [] f = "continue_parse_identifier_no_rollback" -> continue_parse_identifier_no_rollback(args[1])
      [] f = "continue_parse_identifier" -> continue_parse_identifier(args[1])
      [] f = "parse_identifier" -> parse_identifier(args[1])
      [] f = "parse_prefix_identifier" -> parse_prefix_identifier(args[1])
      [] f = "continue_parse_generic_names_loop" -> continue_parse_generic_names_loop(args[1], args[2], args[3])
      [] f = "continue_parse_generic_names" -> continue_parse_generic_names(args[1])
      [] f = "continue_parse_type_expression" -> continue_parse_type_expression(args[1])
      [] f = "parse_binary_expression_loop" -> parse_binary_expression_loop(args[1], args[2], args[3], args[4])
      [] f = "parse_negative_expression" -> parse_negative_expression(args[1])
      [] f = "parse_function_call_loop" -> parse_function_call_loop(args[1], args[2])
      [] f = "continue_parse_arguments_loop" -> continue_parse_arguments_loop(args[1], args[2], args[3])
      [] f = "continue_parse_arguments" -> continue_parse_arguments(args[1])
      [] f = "parse_member_or_slice_loop" -> parse_member_or_slice_loop(args[1], args[2])
      [] f = "continue_parse_index_or_slice" -> continue_parse_index_or_slice(args[1])
      [] f = "parse_primary_expression" -> parse_primary_expression(args[1])
      [] f = "parse_anonymous_parameters" -> parse_anonymous_parameters(args[1], args[2], args[3])
      [] f = "parse_type_and_which_clauses" -> parse_type_and_which_clauses(args[1], args[2], args[3])
      [] f = "parse_anonymous_function" -> parse_anonymous_function(args[1])
      [] f = "parse_list_loop" -> parse_list_loop(args[1], args[2], args[3])
      [] f = "parse_list" -> parse_list(args[1])
      [] f = "parse_tuple_loop" -> parse_tuple_loop(args[1], args[2], args[3], args[4])
      [] f = "parse_tuple_or_parenthesized" -> parse_tuple_or_parenthesized(args[1])
      [] f = "continue_parse_interval" -> continue_parse_interval(args[1])
      [] f = "continue_parse_map_loop" -> continue_parse_map_loop(args[1], args[2], args[3])
      [] f = "continue_parse_map" -> continue_parse_map(args[1])
      [] f = "parse_map" -> parse_map(args[1])
      [] f = "parse_sign_parameters" -> parse_sign_parameters(args[1], args[2], args[3])
      [] f = "parse_sign_expression" -> parse_sign_expression(args[1])
      [] f = "continue_parse_only_expression" -> continue_parse_only_expression(args[1])
      [] f = "continue_parse_which_entry_data_type_list" -> continue_parse_which_entry_data_type_list(args[1], args[2])
      [] f = "continue_parse_which_entry" -> continue_parse_which_entry(args[1])
      [] f = "continue_parse_which_entries" -> continue_parse_which_entries(args[1], args[2], args[3])
      [] f = "continue_parse_which_expression" -> continue_parse_which_expression(args[1])
      [] f = "parse_program_loop" -> parse_program_loop(args[1], args[2])
      [] f = "parse_program" -> parse_program(args[1])
      [] f = "parse" -> parse(args[1])
      [] f = "parse_empty_function_declaration" -> parse_empty_function_declaration(args[1])
      [] f = "parse_pattern_function_declaration" -> parse_pattern_function_declaration(args[1])
      [] f = "parse_use_statement" -> parse_use_statement(args[1])
      [] f = "parse_const_statement" -> parse_const_statement(args[1])
      [] f = "parse_struct" -> parse_struct(args[1])
      [] f = "parse_union" -> parse_union(args[1])
      [] f = "parse_trait_declaration" -> parse_trait_declaration(args[1])
      [] f = "parse_impl_statement" -> parse_impl_statement(args[1])
      [] f = "parse_alias_statement" -> parse_alias_statement(args[1])
      [] f = "parse_statement" -> parse_statement(args[1])
      [] f = "parse_function_parameters" -> parse_function_parameters(args[1], args[2], args[3])
      [] f = "parse_function_declaration" -> parse_function_declaration(args[1])
      [] f = "parse_expression_statement" -> parse_expression_statement(args[1])
      [] f = "parse_expression" -> parse_expression(args[1])
      [] f = "continue_parse_expression_block_loop" -> continue_parse_expression_block_loop(args[1], args[2])
      [] f = "continue_parse_expression_block" -> continue_parse_expression_block(args[1])
      [] f = "continue_parse_expression_block_or_single_expression" -> continue_parse_expression_block_or_single_expression(args[1])
      [] f = "parse_do_expression" -> parse_do_expression(args[1])
      [] f = "parse_join_expression" -> parse_join_expression(args[1])
      [] f = "parse_let_expression" -> parse_let_expression(args[1])
      [] f = "parse_if_expression" -> parse_if_expression(args[1])
      [] f = "continue_parse_where_expression" -> continue_parse_where_expression(args[1])
      [] f = "parse_identifier_before_brace" -> parse_identifier_before_brace(args[1])
      [] f = "parse_let_binding" -> parse_let_binding(args[1])
      [] f = "parse_for_expression" -> parse_for_expression(args[1])
      [] f = "parse_next_expression" -> parse_next_expression(args[1])
      [] f = "parse_each_expression" -> parse_each_expression(args[1])
      [] f = "continue_parse_branch_case" -> continue_parse_branch_case(args[1])
      [] f = "continue_parse_default_case" -> continue_parse_default_case(args[1])
      [] f = "parse_branch_cases_keep_going" -> parse_branch_cases_keep_going(args[1], args[2], args[3], args[4])
      [] f = "parse_branch_cases" -> parse_branch_cases(args[1], args[2], args[3], args[4])
      [] f = "parse_branch_expression" -> parse_branch_expression(args[1])
      [] f = "continue_parse_match_case_variable" -> continue_parse_match_case_variable(args[1])
      [] f = "continue_parse_match_case_pattern" -> continue_parse_match_case_pattern(args[1])
      [] f = "continue_parse_match_case_clauses" -> continue_parse_match_case_clauses(args[1], args[2], args[3])
      [] f = "continue_parse_match_case" -> continue_parse_match_case(args[1])
      [] f = "parse_match_cases" -> parse_match_cases(args[1], args[2], args[3], args[4])
      [] f = "parse_match_expression" -> parse_match_expression(args[1])

\* ------------------------------------------------------------------ state machine
\*
\* `source_text` is the text handed to the lexer, `token_details` the token sequence handed
\* to the parser, `input` a description of how the input was generated, `pc` is "ready"
\* before an operation has been applied and the name of the applied operation afterwards,
\* and `result` is what that operation returned.

BoundedSeq(S, n) == UNION {[1..k -> S] : k \in 0..n}

Parse ==
    /\ pc = "ready"
    /\ pc' = "parse"
    /\ result' = call("parse", <<token_details>>)
    /\ UNCHANGED <<source_text, token_details, input>>

ParseNegativeExpression ==
    /\ pc = "ready"
    /\ pc' = "parse_negative_expression"
    /\ result' = call("parse_negative_expression", <<token_details>>)
    /\ UNCHANGED <<source_text, token_details, input>>

\* ---- arbitrary short token sequences

MaxTokens == 3

TokenAlphabet ==
    {Identifier("a"), Integer(1), TemplateString("t"), T("Minus"), T("Unwrap"), NewLine,
     T("Use"), T("Const"), T("Struct"), T("Union"), T("Trait"), T("Impl"), T("Alias"),
     T("Empty"), T("Pattern")}

InitTokens ==
    /\ source_text = <<>>
    /\ token_details \in BoundedSeq(TokenAlphabet, MaxTokens)
    /\ input = <<"tokens">>
    /\ pc = "ready"
    /\ result = <<>>

NextTokens == Parse \/ ParseNegativeExpression

SpecTokens == InitTokens /\ [][NextTokens]_vars

\* C2: for every token sequence, parse returns a Program or a ParserError and never aborts
\* abnormally, also for a template-string token in expression position and for a statement
\* that starts with a declaration keyword.
ParseNeverAborts ==
    pc = "parse" =>
        \/ result[1] = "Ok" /\ result[2][1] = "Program"
        \/ result[1] = "Err"

\* C5: `-` followed by an operand parses to a unary Minus node over the operand parsed at
\* the unwrap tier, and consumes exactly the `-` token and the operand's tokens.
NegativeParsesToUnaryMinus ==
    (/\ pc = "parse_negative_expression"
     /\ is_token(T("Minus"), token_details)
     /\ call("parse_unwrap_expression", <<Tail(token_details)>>)[1] = "Ok")
    => LET operand == call("parse_unwrap_expression", <<Tail(token_details)>>)
       IN  result = Ok(UnaryExpression(T("Minus"), operand[2]), operand[3])

\* ---- binary expressions `a op1 b op2 c`

Operands ==
    {Identifier("a"), Integer(1), Float(<<15, -1>>), Imaginary(<<2, 0>>), TemplateString("t")}

BinaryOperators ==
    {T("Pipe"), T("LogicOr"), T("LogicAnd"), T("Equal"), T("NotEqual"), T("GreaterThan"),
     T("GreaterThanOrEqual"), T("LessThan"), T("LessThanOrEqual"), NamedOperator("f"),
     T("Concat"), T("Plus"), T("Minus"), T("Asterisk"), T("Slash"), T("OptionalOr"),
     T("OptionalAnd"), T("Combine")}

InitBinary ==
    /\ source_text = <<>>
    /\ \E a \in Operands, op1 \in BinaryOperators, b \in Operands,
          op2 \in BinaryOperators, c \in Operands :
            /\ input = <<"binary", a, op1, b, op2, c>>
            /\ token_details = <<a, op1, b, op2, c>>
    /\ pc = "ready"
    /\ result = <<>>

NextBinary == Parse

SpecBinary == InitBinary /\ [][NextBinary]_vars

\* The tier of a binary operator in the chain of tier functions that starts at
\* parse_pipe_expression, loosest first.
Tier(op) ==
    CASE op[1] = "Pipe" -> 1
      [] op[1] = "LogicOr" -> 2
      [] op[1] = "LogicAnd" -> 3
      [] op[1] \in {"Equal", "NotEqual"} -> 4
      [] op[1] \in {"GreaterThan", "GreaterThanOrEqual", "LessThan", "LessThanOrEqual"} -> 5
      [] op[1] = "NamedOperator" -> 6
      [] op[1] = "Concat" -> 7
      [] op[1] \in {"Plus", "Minus"} -> 8
      [] op[1] \in {"Asterisk", "Slash"} -> 9
      [] op[1] = "OptionalOr" -> 10
      [] op[1] = "OptionalAnd" -> 11
      [] op[1] = "Combine" -> 12

\* The node a single operand token parses to on its own.
OperandNode(t) == call("parse_primary_expression", <<<<t>>>>)[2]

\* The operand token parses on its own (a template-string token does not: parse_literal
\* aborts on it).
OperandParses(t) == call("parse_primary_expression", <<<<t>>>>)[1] = "Ok"

\* `a op1 b op2 c` with op1 on a looser tier than op2 and operands that parse on their own.
PrecedenceCase ==
    /\ pc = "parse" /\ input[1] = "binary"
    /\ Tier(input[3]) < Tier(input[5])
    /\ OperandParses(input[2]) /\ OperandParses(input[4]) /\ OperandParses(input[6])

ProgramOfExpression(e) == Ok(<<"Program", <<<<"Expression", e>>>>>>, <<>>)

\* An Integer or Float token directly followed by `+` and an Imaginary token is one literal.
IsComplexLiteral(x, op, y) ==
    x[1] \in {"Integer", "Float"} /\ op = T("Plus") /\ y[1] = "Imaginary"

LeftAssociativeTiers == {1, 2, 3, 4, 5, 7, 8, 9, 10, 11}

IsIdentifierOrInteger(t) == t[1] \in {"Identifier", "Integer"}

AssociativityCase ==
    /\ pc = "parse" /\ input[1] = "binary"
    /\ Tier(input[3]) = Tier(input[5])
    /\ IsIdentifierOrInteger(input[2])
    /\ IsIdentifierOrInteger(input[4])
    /\ IsIdentifierOrInteger(input[6])

AssociativityExpected ==
    IF Tier(input[3]) \in LeftAssociativeTiers
    THEN ProgramOfExpression(
             BinaryExpression(input[5],
                 BinaryExpression(input[3], OperandNode(input[2]), OperandNode(input[4])),
                 OperandNode(input[6])))
    ELSE ProgramOfExpression(
             BinaryExpression(input[3], OperandNode(input[2]),
                 BinaryExpression(input[5], OperandNode(input[4]), OperandNode(input[6]))))

\* C4 as stated: two operators of one left-associative tier fold left, `&` folds right, for
\* all identifier and integer operands.
AssociativityAllOperands ==
    (AssociativityCase /\ Tier(input[3]) # 6) => result = AssociativityExpected

\* C4: two operators of one left-associative tier fold left (`a op b op' c` is
\* op'(op(a, b), c)) and `a & b & c` is &(a, &(b, c)), for identifier and integer operands,
\* unless the input is `a < b > c` with identifiers a and b (then `<b>` is the generic
\* argument list of a).
Associativity ==
    (/\ AssociativityCase /\ Tier(input[3]) # 6
     /\ ~(/\ input[3] = T("LessThan") /\ input[5] = T("GreaterThan")
          /\ input[2][1] = "Identifier" /\ input[4][1] = "Identifier"))
    => result = AssociativityExpected

AssociativityWitness ==
    /\ AssociativityCase
    /\ input[3] = T("LessThan") /\ input[5] = T("GreaterThan")
    /\ input[2] = Integer(1) /\ input[4] = Identifier("a")
    /\ result = AssociativityExpected

\* ---- an identifier and what follows it

ContinueParseIdentifier ==
    /\ pc = "ready"
    /\ pc' = "continue_parse_identifier"
    /\ result' = call("continue_parse_identifier", <<token_details>>)
    /\ UNCHANGED <<source_text, token_details, input>>

MaxIdentifierTokens == 4

IdentifierAlphabet ==
    {Identifier("a"), Integer(1), TemplateString("t"), T("LessThan"), T("GreaterThan"),
     T("Comma"), NewLine}

InitIdentifier ==
    /\ source_text = <<>>
    /\ token_details \in BoundedSeq(IdentifierAlphabet, MaxIdentifierTokens)
    /\ input = <<"identifier">>
    /\ pc = "ready"
    /\ result = <<>>

NextIdentifier == ContinueParseIdentifier \/ Parse

SpecIdentifier == InitIdentifier /\ [][NextIdentifier]_vars

\* continue_parse_identifier has been applied to an identifier directly followed by `<`.
GenericAttemptCase ==
    /\ pc = "continue_parse_identifier"
    /\ Len(token_details) >= 2
    /\ token_details[1][1] = "Identifier"
    /\ token_details[2] = T("LessThan")

\* What the attempt to parse a generic argument list at that `<` returns.
GenericAttempt == call("continue_parse_generic_names", <<Tail(token_details)>>)

\* C6: after an identifier directly followed by `<`, a generic argument list that parses
\* is attached to the identifier and the cursor is just after its `>`; one that fails with
\* an error leaves no error, no generic arguments and the cursor at that same `<`; and the
\* statement `a < b` then parses to the comparison <(a, b).
GenericsOrLessThan ==
    /\ (GenericAttemptCase /\ GenericAttempt[1] = "Ok")
        => /\ result = Ok(<<"Identifier", <<>>, token_details[1][2], GenericAttempt[2]>>,
                          GenericAttempt[3])
           /\ token_details[Len(token_details) - Len(result[3])] = T("GreaterThan")
    /\ (GenericAttemptCase /\ GenericAttempt[1] = "Err")
        => result = Ok(<<"Identifier", <<>>, token_details[1][2], <<>>>>, Tail(token_details))
    /\ (/\ pc = "parse" /\ Len(token_details) = 3
        /\ token_details[1][1] = "Identifier" /\ token_details[2] = T("LessThan")
        /\ token_details[3][1] \in {"Identifier", "Integer"})
        => result = ProgramOfExpression(
                        BinaryExpression(T("LessThan"), OperandNode(token_details[1]),
                                         OperandNode(token_details[3])))

\* `a < 1 >`: the list does not parse (1 is no data type) and the cursor is back at `<`.
GenericsOrLessThanWitness ==
    /\ GenericAttemptCase
    /\ token_details = <<Identifier("a"), T("LessThan"), Integer(1), T("GreaterThan")>>
    /\ GenericAttempt[1] = "Err"
    /\ result[1] = "Ok"
    /\ result[3] = <<T("LessThan"), Integer(1), T("GreaterThan")>>

\* ---- parenthesized expressions, tuples, lists and argument lists

MaxElements == 3

ElementIdentifier == <<Identifier("a")>>

ElementInteger == <<Integer(1)>>

ElementSum == <<Identifier("a"), T("Plus"), Integer(1)>>

ElementEllipsis == <<T("Ellipsis")>>

ElementEllipsisRest == <<T("Ellipsis"), Identifier("rest")>>

ElementInterval == <<Integer(1), T("Interval"), Integer(2)>>

ElementNamed == <<Identifier("k"), T("Assign"), Integer(1)>>

Elements ==
    {ElementIdentifier, ElementInteger, ElementSum, ElementEllipsis, ElementEllipsisRest,
     ElementInterval, ElementNamed}

Forms == {"paren", "list", "call"}

RECURSIVE JoinWithComma(_)
JoinWithComma(es) ==
    IF es = <<>> THEN <<>>
    ELSE IF Len(es) = 1 THEN es[1]
    ELSE es[1] \o <<T("Comma")>> \o JoinWithComma(Tail(es))

\* The tokens of `( e1, .., en )`, `[ e1, .., en ]` or `f( e1, .., en )`, with or without a
\* comma after the last element.
ElementsTokens(form, es, trailing) ==
    LET open == CASE form = "paren" -> <<T("LeftParen")>>
                  [] form = "list" -> <<T("LeftBracket")>>
                  [] form = "call" -> <<Identifier("f"), T("LeftParen")>>
        close == IF form = "list" THEN <<T("RightBracket")>> ELSE <<T("RightParen")>>
    IN  open \o JoinWithComma(es) \o (IF trailing THEN <<T("Comma")>> ELSE <<>>) \o close

InitElements ==
    /\ source_text = <<>>
    /\ input \in {<<form, es, trailing>> :
                    form \in Forms, es \in BoundedSeq(Elements, MaxElements),
                    trailing \in BOOLEAN}
    /\ token_details = ElementsTokens(input[1], input[2], input[3])
    /\ pc = "ready"
    /\ result = <<>>

NextElements == Parse

SpecElements == InitElements /\ [][NextElements]_vars

\* The node an element stands for inside `( )`, `[ ]` or an argument list.
ElementNode(form, e) ==
    LET n == CASE e = ElementEllipsis -> <<"Ellipsis", None>>
               [] e = ElementEllipsisRest -> <<"Ellipsis", Some("rest")>>
               [] e = ElementInterval ->
                      Interval(FALSE, OperandNode(Integer(1)), Some(OperandNode(Integer(2))))
               [] e = ElementSum ->
                      BinaryExpression(T("Plus"), OperandNode(Identifier("a")),
                                       OperandNode(Integer(1)))
               [] OTHER -> OperandNode(e[1])
    IN  IF form # "call" THEN n
        ELSE IF e = ElementNamed THEN Argument(Some("k"), OperandNode(Integer(1)))
        ELSE Argument(None, n)

ElementNodes(form, es) == [i \in 1..Len(es) |-> ElementNode(form, es[i])]

\* The contents of a pair of parentheses: expressions, and at most one ellipsis, in the last
\* place; a comma needs an element before it.
IsTupleContents(es, trailing) ==
    /\ \A i \in 1..Len(es) :
          \/ es[i] \in {ElementIdentifier, ElementInteger, ElementSum}
          \/ i = Len(es) /\ es[i] \in {ElementEllipsis, ElementEllipsisRest}
    /\ trailing => es # <<>>

\* C7: `()` parses to the empty tuple, `(e)` without a comma parses to exactly e, and as
\* soon as a comma follows an element inside the parentheses the result is a tuple of the
\* elements.
TupleOrParenthesized ==
    (pc = "parse" /\ input[1] = "paren" /\ IsTupleContents(input[2], input[3]))
    => LET es == input[2]
           has_comma == Len(es) >= 2 \/ input[3]
       IN  result = ProgramOfExpression(
                        IF es = <<>> THEN <<"Tuple", <<>>>>
                        ELSE IF has_comma THEN <<"Tuple", ElementNodes("paren", es)>>
                        ELSE ElementNode("paren", es[1]))

TrailingCommaCase ==
    pc = "parse" /\ input[1] \in {"list", "call"} /\ Len(input[2]) >= 1 /\ input[3]

\* C8: a list or an argument list of n >= 1 elements with a comma after the last element
\* parses to the same result as without that comma, and a successful parse has exactly the
\* n elements, in order.
TrailingCommaEquivalence ==
    TrailingCommaCase
    => /\ result = call("parse", <<ElementsTokens(input[1], input[2], FALSE)>>)
       /\ result[1] = "Ok"
          => result = ProgramOfExpression(
                          IF input[1] = "list"
                          THEN <<"List", ElementNodes("list", input[2])>>
                          ELSE <<"FunctionCallExpression", OperandNode(Identifier("f")),
                                 ElementNodes("call", input[2])>>)

TrailingCommaEquivalenceWitness ==
    /\ TrailingCommaCase
    /\ input[1] = "list" /\ input[2] = <<ElementIdentifier, ElementInteger, ElementInterval>>
    /\ result[1] = "Ok" /\ Len(result[2][2][1][2][2]) = 3

\* ---- the subject of `for`, `each` and `match`

ParseIdentifierBeforeBrace ==
    /\ pc = "ready"
    /\ input[1] \in {"for", "each", "match"}
    /\ pc' = "parse_identifier_before_brace"
    /\ result' = call("parse_identifier_before_brace", <<input[2] \o input[3]>>)
    /\ UNCHANGED <<source_text, token_details, input>>

\* `a`, `ns::a`, `a<b>` and `ns::a<b>`.
IdentifierSubjects ==
    {<<Identifier("a")>>,
     <<Identifier("ns"), T("Separator"), Identifier("a")>>,
     <<Identifier("a"), T("LessThan"), Identifier("b"), T("GreaterThan")>>,
     <<Identifier("ns"), T("Separator"), Identifier("a"), T("LessThan"), Identifier("b"),
       T("GreaterThan")>>}

\* `1`, `a + 1`, and an identifier with a new line between it and the `{`.
OtherSubjects ==
    {<<Integer(1)>>, <<Identifier("a"), T("Plus"), Integer(1)>>, <<Identifier("a"), NewLine>>}

\* `{ }`, `{ 1 }`, `{ a: 1 }` and `{ default: 1 }`.
Bodies ==
    {<<T("LeftBrace"), T("RightBrace")>>,
     <<T("LeftBrace"), Integer(1), T("RightBrace")>>,
     <<T("LeftBrace"), Identifier("a"), T("Colon"), Integer(1), T("RightBrace")>>,
     <<T("LeftBrace"), T("Default"), T("Colon"), Integer(1), T("RightBrace")>>}

\* The tokens before the subject: `for let x =`, `each x in`, `match`.
SubjectPrefix(kind) ==
    CASE kind = "for" -> <<T("For"), T("Let"), Identifier("x"), T("Assign")>>
      [] kind = "each" -> <<T("Each"), Identifier("x"), T("In")>>
      [] kind = "match" -> <<T("Match")>>

InitSubject ==
    /\ source_text = <<>>
    /\ input \in {<<kind, subject, body>> :
                    kind \in {"for", "each", "match"},
                    subject \in IdentifierSubjects \cup OtherSubjects,
                    body \in Bodies}
    /\ token_details = SubjectPrefix(input[1]) \o input[2] \o input[3]
    /\ pc = "ready"
    /\ result = <<>>

NextSubject == ParseIdentifierBeforeBrace \/ Parse

SpecSubject == InitSubject /\ [][NextSubject]_vars

\* The Identifier node of a subject that is an identifier.
SubjectIdentifier(subject) == call("continue_parse_identifier", <<subject>>)[2]

\* What `kind subject body` parses to when the subject is the expression x and the body
\* starts at its `{`: the body is an expression block for `for` and `each`, the case block
\* for `match`, and an error in the body is the error of the whole.
SubjectThenBody(kind, x, body) ==
    LET block == call("continue_parse_expression_block_or_single_expression", <<body>>)
        cases == call("parse_match_cases", <<Tail(body), <<>>, None, FALSE>>)
        variable == OperandNode(Identifier("x"))
    IN  CASE kind = "for" ->
               IF block[1] # "Ok" THEN block
               ELSE ProgramOfExpression(
                        <<"ForExpression", <<"LetExpression", None, variable, x>>, block[2]>>)
          [] kind = "each" ->
               IF block[1] # "Ok" THEN block
               ELSE ProgramOfExpression(<<"EachExpression", variable, x, block[2]>>)
          [] kind = "match" ->
               IF cases[1] # "Ok" THEN cases
               ELSE ProgramOfExpression(
                        <<"MatchExpression", x, None, cases[2][1], cases[2][2]>>)

\* C9: in `for let .. = X {`, `each .. in X {` and `match X {`, an X that is an identifier
\* (with or without namespace path and generics) directly followed by `{` is parsed as
\* that plain Identifier, and the `{` is left for the body or case block.
SubjectIsPlainIdentifier ==
    input[2] \in IdentifierSubjects
    => /\ pc = "parse_identifier_before_brace"
          => result = Ok(SubjectIdentifier(input[2]), input[3])
       /\ pc = "parse"
          => result = SubjectThenBody(input[1], SubjectIdentifier(input[2]), input[3])

SubjectIsPlainIdentifierWitness ==
    /\ pc = "parse" /\ input[1] = "for"
    /\ input[2] = <<Identifier("ns"), T("Separator"), Identifier("a"), T("LessThan"),
                    Identifier("b"), T("GreaterThan")>>
    /\ input[3] = <<T("LeftBrace"), Integer(1), T("RightBrace")>>
    /\ result[1] = "Ok"
    /\ result[2][2][1][2][1] = "ForExpression"
    /\ result[2][2][1][2][2][4][1] = "Identifier"
    /\ result[2][2][1][2][2][4][2] = <<"ns">>

\* ---- the cases of `branch` and `match`

MaxCases == 3

CaseSeparators == {"comma", "new line", "comma and new line"}

RECURSIVE Flatten(_)
Flatten(sequences) ==
    IF sequences = <<>> THEN <<>> ELSE sequences[1] \o Flatten(Tail(sequences))

InitCases ==
    /\ source_text = <<>>
    /\ input \in {<<kind, entries, separator>> :
                    kind \in {"branch", "match"},
                    entries \in BoundedSeq({"case", "default"}, MaxCases),
                    separator \in CaseSeparators}
    /\ pc = "ready"
    /\ result = <<>>
    /\ LET separator == CASE input[3] = "comma" -> <<T("Comma")>>
                          [] input[3] = "new line" -> <<NewLine>>
                          [] input[3] = "comma and new line" -> <<T("Comma"), NewLine>>
           \* `case a: 1` and `default: 2`, each followed by the separator
           entry(e) == (IF e = "case"
                        THEN <<T("Case"), Identifier("a"), T("Colon"), Integer(1)>>
                        ELSE <<T("Default"), T("Colon"), Integer(2)>>) \o separator
           entries == input[2]
           body == Flatten([i \in 1..Len(entries) |-> entry(entries[i])])
           head == IF input[1] = "branch" THEN <<T("Branch")>> ELSE <<T("Match"), Identifier("m")>>
       IN  token_details = head \o <<T("LeftBrace")>> \o body \o <<T("RightBrace")>>

NextCases == Parse

SpecCases == InitCases /\ [][NextCases]_vars

CasesCase == pc = "parse" /\ input[1] \in {"branch", "match"}

\* Some entry comes after a `default:` entry.
EntryAfterDefault(entries) ==
    \E i \in 1..Len(entries) : entries[i] = "default" /\ i < Len(entries)

\* The cases and the default of a parsed `branch` or `match` expression statement.
ParsedCases(r) ==
    LET e == r[2][2][1][2]
    IN  IF e[1] = "BranchExpression" THEN <<e[3], e[4]>> ELSE <<e[4], e[5]>>

\* C10: in a `branch` or `match` block only `}` is accepted after the `default:` entry, so
\* a block has at most one default and it is the last entry: a block with an entry after
\* its default is a parse error, and every other block parses to its cases in order, with
\* the default exactly when the last entry is one.
DefaultIsLast ==
    CasesCase
    => LET entries == input[2]
           n == Len(entries)
           has_default == n >= 1 /\ entries[n] = "default"
       IN  IF EntryAfterDefault(entries)
           THEN result = Err("expected the right brace symbol")
           ELSE /\ result[1] = "Ok"
                /\ Len(ParsedCases(result)[1]) = (IF has_default THEN n - 1 ELSE n)
                /\ (ParsedCases(result)[2] # None) = has_default

DefaultIsLastWitness ==
    /\ CasesCase
    /\ input[2] = <<"case", "default", "case">>
    /\ result = Err("expected the right brace symbol")

\* ---- tokenize on short source texts

Tokenize ==
    /\ pc = "ready"
    /\ pc' = "tokenize"
    /\ result' = tokenize(source_text)
    /\ UNCHANGED <<source_text, token_details, input>>

MaxChars == 6

\* A quote of each kind, a letter and two digits.
CharAlphabet == {"'", "\"", "b", "0", "1"}

InitText ==
    /\ source_text \in BoundedSeq(CharAlphabet, MaxChars)
    /\ token_details = <<>>
    /\ input = <<"text">>
    /\ pc = "ready"
    /\ result = <<>>

NextText == Tokenize

SpecText == InitText /\ [][NextText]_vars

\* C1: for every source text tokenize returns Ok(token sequence) or Err(LexerError) and
\* never aborts, also on an empty char literal, an empty raw string and an empty document
\* comment.
TokenizeNeverAborts ==
    pc = "tokenize"
    => \/ result[1] = "Ok"
       \/ result[1] = "Err" /\ result[2][1] = "LexerError"

\* ---- literals: a number, `+`, an imaginary number

ParseLiteral ==
    /\ pc = "ready"
    /\ pc' = "parse_literal"
    /\ result' = call("parse_literal", <<token_details>>)
    /\ UNCHANGED <<source_text, token_details, input>>

MaxLiteralTokens == 4

LiteralAlphabet ==
    {Integer(3), Float(<<15, -1>>), Imaginary(<<4, 0>>), T("Plus"), T("Asterisk"),
     Identifier("a")}

InitLiteral ==
    /\ source_text = <<>>
    /\ token_details \in BoundedSeq(LiteralAlphabet, MaxLiteralTokens)
    /\ input = <<"literal">>
    /\ pc = "ready"
    /\ result = <<>>

NextLiteral == ParseLiteral \/ Parse

SpecLiteral == InitLiteral /\ [][NextLiteral]_vars

\* The real part of the complex literal that starts with the number token t.
RealPart(t) == IF t[1] = "Integer" THEN i64_as_f64(t[2]) ELSE t[2]

\* The token sequence starts with an Integer or Float token, `+` and an Imaginary token.
StartsWithComplex(token_details_) ==
    /\ Len(token_details_) >= 3
    /\ IsComplexLiteral(token_details_[1], token_details_[2], token_details_[3])

\* C11: an Integer or Float token directly followed by `+` and an Imaginary token parses
\* to one Complex literal (real part the number, imaginary part the imaginary value) that
\* consumes the three tokens, and on their own the three tokens parse to a program of
\* that literal, not to a binary `+`; a lone Imaginary token parses to a Complex literal
\* with real part 0.
ComplexLiteralFusion ==
    /\ (pc = "parse_literal" /\ StartsWithComplex(token_details))
       => result = Ok(<<"Complex", RealPart(token_details[1]), token_details[3][2]>>,
                      SubSeq(token_details, 4, Len(token_details)))
    /\ (pc = "parse" /\ StartsWithComplex(token_details) /\ Len(token_details) = 3)
       => result = ProgramOfExpression(
                       <<"Literal", <<"Complex", RealPart(token_details[1]),
                                      token_details[3][2]>>>>)
    /\ (pc = "parse_literal" /\ token_details # <<>> /\ token_details[1][1] = "Imaginary")
       => result = Ok(<<"Complex", <<0, 0>>, token_details[1][2]>>, Tail(token_details))
    /\ (pc = "parse" /\ Len(token_details) = 1 /\ token_details[1][1] = "Imaginary")
       => result = ProgramOfExpression(
                       <<"Literal", <<"Complex", <<0, 0>>, token_details[1][2]>>>>)

ComplexLiteralFusionWitness ==
    /\ pc = "parse"
    /\ token_details = <<Integer(3), T("Plus"), Imaginary(<<4, 0>>)>>
    /\ result = ProgramOfExpression(<<"Literal", <<"Complex", <<3, 0>>, <<4, 0>>>>>>)

\* ---- lines: line terminators, `;`, blanks and line comments

\* The call of skip_line_comment in tokenize: the text starts with `//` and the scanner is
\* given the text after the first `/`.
SkipLineComment ==
    /\ pc = "ready"
    /\ is_chars(<<"/", "/">>, source_text)
    /\ pc' = "skip_line_comment"
    /\ result' = Ok(<<>>, skip_line_comment(Tail(source_text)))
    /\ UNCHANGED <<source_text, token_details, input>>

MaxLineChars == 4

LineAlphabet == {"\r", "\n", ";", " ", "\t", "/", "b"}

InitLines ==
    /\ source_text \in BoundedSeq(LineAlphabet, MaxLineChars)
    /\ token_details = <<>>
    /\ input = <<"lines">>
    /\ pc = "ready"
    /\ result = <<>>

NextLines == Tokenize \/ SkipLineComment

SpecLines == InitLines /\ [][NextLines]_vars

\* The text from its first `\r` or `\n` on (empty when it has none).
RECURSIVE FromLineTerminator(_)
FromLineTerminator(chars) ==
    IF chars = <<>> \/ chars[1] \in {"\r", "\n"} THEN chars
    ELSE FromLineTerminator(Tail(chars))

\* The text after its leading run of the letter `b`, and that run.
RECURSIVE AfterLetters(_)
AfterLetters(chars) ==
    IF chars = <<>> \/ chars[1] # "b" THEN chars ELSE AfterLetters(Tail(chars))

LeadingLetters(chars) == SubSeq(chars, 1, Len(chars) - Len(AfterLetters(chars)))

\* The tokens of a text over LineAlphabet, line by line: a line comment is dropped up to
\* its line terminator, each `\r\n`, `\r`, `\n` and `;` is one NewLine, blanks are nothing.
RECURSIVE LineTokens(_)
LineTokens(chars) ==
    IF chars = <<>> THEN <<>>
    ELSE IF is_chars(<<"/", "/">>, chars) THEN LineTokens(FromLineTerminator(chars))
    ELSE IF is_chars(<<"\r", "\n">>, chars) THEN <<NewLine>> \o LineTokens(Tail(Tail(chars)))
    ELSE IF chars[1] \in {"\r", "\n", ";"} THEN <<NewLine>> \o LineTokens(Tail(chars))
    ELSE IF chars[1] \in {" ", "\t"} THEN LineTokens(Tail(chars))
    ELSE IF chars[1] = "/" THEN <<T("Slash")>> \o LineTokens(Tail(chars))
    ELSE <<Identifier(collect(LeadingLetters(chars)))>> \o LineTokens(AfterLetters(chars))

\* C12 as stated: skip_line_comment consumes the characters up to its line terminator and
\* none of the terminator, also when the terminator is `\r\n`.
LineCommentLeavesTerminator ==
    pc = "skip_line_comment" => result[3] = FromLineTerminator(source_text)

\* C12: outside comments each `\r\n`, lone `\r`, lone `\n` and `;` gives exactly one
\* NewLine token and blanks and tabs give none; the terminator that ends a line comment
\* gives exactly one NewLine token. The comment scanner stops at a `\n` or a lone `\r`,
\* and of a `\r\n` it consumes the `\r` and stops at the `\n`.
NewLineNormalization ==
    /\ pc = "tokenize" => result = Ok(LineTokens(source_text), <<>>)
    /\ pc = "skip_line_comment"
       => LET terminator == FromLineTerminator(source_text)
          IN  result[3] = IF is_chars(<<"\r", "\n">>, terminator)
                          THEN Tail(terminator)
                          ELSE terminator

NewLineNormalizationWitness ==
    /\ pc = "tokenize"
    /\ source_text = <<"/", "/", "\r", "\n">>
    /\ result = Ok(<<NewLine>>, <<>>)

\* ---- `:` and named operators

MaxColonChars == 4

ColonAlphabet == {":", "b", "1", " ", "+"}

InitColon ==
    /\ source_text \in BoundedSeq(ColonAlphabet, MaxColonChars)
    /\ token_details = <<>>
    /\ input = <<"colon">>
    /\ pc = "ready"
    /\ result = <<>>

NextColon == Tokenize

SpecColon == InitColon /\ [][NextColon]_vars

\* The text after its leading run of characters that are valid in an identifier.
RECURSIVE AfterIdentifierLetters(_)
AfterIdentifierLetters(chars) ==
    IF chars = <<>> \/ ~is_valid_letter_of_identifier_or_keyword(chars[1]) THEN chars
    ELSE AfterIdentifierLetters(Tail(chars))

\* The result of tokenize with the token t put before its tokens.
WithFirstToken(t, r) == IF r[1] = "Ok" THEN Ok(<<t>> \o r[2], r[3]) ELSE r

\* The text is `:`, then an identifier-start character.
ColonBeforeName ==
    /\ pc = "tokenize"
    /\ Len(source_text) >= 2
    /\ source_text[1] = ":"
    /\ is_valid_first_letter_of_identifier_or_keyword(source_text[2])

\* The name after the `:` is closed by a `:`.
NameIsClosed == is_char(":", AfterIdentifierLetters(Tail(source_text)))

\* The text is `:`, then nothing or a character that is neither `:` nor identifier-start.
ColonBeforeOther ==
    /\ pc = "tokenize"
    /\ source_text # <<>>
    /\ source_text[1] = ":"
    /\ Len(source_text) >= 2
       => /\ source_text[2] # ":"
          /\ ~is_valid_first_letter_of_identifier_or_keyword(source_text[2])

\* C13 as stated: `:`, an identifier-start character and no closing `:` before a character
\* that is not valid in an identifier or before the end of the text is a lexical error.
UnclosedNameIsError ==
    (ColonBeforeName /\ ~NameIsClosed)
    => result[1] = "Err" /\ result[2][1] = "LexerError"

\* C13: `:name:` is one NamedOperator token; `:` followed by an identifier-start character
\* and no closing `:` before a character that is not valid in an identifier or before the
\* end of the text is a plain Colon token, and the scan goes on at the character after
\* the `:`; `:` followed by a character that is neither `:` nor identifier-start is a
\* plain Colon token.
ColonOrNamedOperator ==
    /\ (ColonBeforeName /\ NameIsClosed)
       => LET after == AfterIdentifierLetters(Tail(source_text))
              name == SubSeq(source_text, 2, Len(source_text) - Len(after))
          IN  result = WithFirstToken(NamedOperator(collect(name)), tokenize(Tail(after)))
    /\ (ColonBeforeName /\ ~NameIsClosed)
       => result = WithFirstToken(T("Colon"), tokenize(Tail(source_text)))
    /\ ColonBeforeOther
       => result = WithFirstToken(T("Colon"), tokenize(Tail(source_text)))

ColonOrNamedOperatorWitness ==
    /\ pc = "tokenize"
    /\ source_text = <<":", "b", " ", "b">>
    /\ result = Ok(<<T("Colon"), Identifier("b"), Identifier("b")>>, <<>>)

\* ---- block comments

MaxCommentChars == 5

CommentAlphabet == {"/", "*", "b", " "}

InitComment ==
    /\ source_text \in BoundedSeq(CommentAlphabet, MaxCommentChars)
    /\ token_details = <<>>
    /\ input = <<"comment">>
    /\ pc = "ready"
    /\ result = <<>>

NextComment == Tokenize

SpecComment == InitComment /\ [][NextComment]_vars

\* The text after its first `*/`, as Some, or None when it has no `*/`.
RECURSIVE AfterCommentEnd(_)
AfterCommentEnd(chars) ==
    IF chars = <<>> THEN None
    ELSE IF is_chars(<<"*", "/">>, chars) THEN Some(Tail(Tail(chars)))
    ELSE AfterCommentEnd(Tail(chars))

\* C14: a comment opened by `/*` is closed by the first `*/` after the opener, everything
\* in between gives no token and the scan goes on after that `*/`; when there is no `*/`
\* after the opener tokenize returns a lexical error.
BlockCommentClosedAfterOpener ==
    (pc = "tokenize" /\ is_chars(<<"/", "*">>, source_text))
    => LET post == AfterCommentEnd(Tail(Tail(source_text)))
       IN  IF post = None
           THEN result[1] = "Err" /\ result[2][1] = "LexerError"
           ELSE result = tokenize(post[1])

\* ---- literals and comments without their closing delimiter

MaxBodyChars == 2

\* The opening delimiters, each with the characters its body is drawn from and its
\* closing delimiter.
Openers ==
    {<<"string", <<"\"">>, {"b", "'"}, <<"\"">>>>,
     <<"raw string", <<"\"", "\"", "\"">>, {"b", "\""}, <<"\"", "\"", "\"">>>>,
     <<"template string", <<GraveAccent>>, {"b", "\""}, <<GraveAccent>>>>,
     <<"char", <<"'">>, {"b", "\""}, <<"'">>>>,
     <<"document comment", <<"'", "'", "'">>, {"b", "'"}, <<"'", "'", "'">>>>,
     <<"comment", <<"/", "*">>, {"b", "*", "/"}, <<"*", "/">>>>,
     <<"attribute", <<"#", "[">>, {"b", "\""}, <<"]">>>>}

\* Texts that lex to tokens on their own and end where a new token can start.
Before == {<<>>, <<"b", " ">>, <<"1", ";">>}

\* The sequence `part` occurs in `chars`.
Occurs(part, chars) ==
    \E i \in 1..(Len(chars) - Len(part) + 1) :
        SubSeq(chars, i, i + Len(part) - 1) = part

InitUnterminated ==
    /\ \E before \in Before, opener \in Openers :
          \E body \in BoundedSeq(opener[3], MaxBodyChars) :
              /\ ~Occurs(opener[4], body)
              /\ input = <<"unterminated", opener[1], before, opener[2], body>>
              /\ source_text = before \o opener[2] \o body
    /\ token_details = <<>>
    /\ pc = "ready"
    /\ result = <<>>

NextUnterminated == Tokenize

SpecUnterminated == InitUnterminated /\ [][NextUnterminated]_vars

\* C15: a text that ends inside a quoted string, raw string, template string, char
\* literal, document comment, block comment or attribute (the closing delimiter does not
\* occur after the opening one) makes tokenize return a LexerError, and with it none of
\* the tokens scanned before the opening delimiter.
UnterminatedIsLexerError ==
    (pc = "tokenize" /\ input[1] = "unterminated")
    => result[1] = "Err" /\ result[2][1] = "LexerError"

\* ---- numbers: the `.` after the integer digits

MaxFractionDigits == 2

IntegerParts == {<<"0">>, <<"3">>, <<"1", "0">>, <<"2", "5">>}

RangeOperators == {<<".", ".">>, <<".", ".", "=">>}

AfterNumber == {<<>>, <<" ">>, <<"+">>, <<"]">>}

InitPoint ==
    /\ \E digits \in IntegerParts :
          \/ \E range \in RangeOperators, to \in {<<>>, <<"5">>} :
                /\ input = <<"point", "range", digits, range \o to>>
                /\ source_text = digits \o range \o to
          \/ \E fraction \in BoundedSeq({"0", "5"}, MaxFractionDigits), after \in AfterNumber :
                /\ input = <<"point", "float", digits, fraction, after>>
                /\ source_text = digits \o <<".">> \o fraction \o after
    /\ token_details = <<>>
    /\ pc = "ready"
    /\ result = <<>>

NextPoint == Tokenize

SpecPoint == InitPoint /\ [][NextPoint]_vars

\* C16: after the integer digits of a number that starts with a nonzero digit or is `0`, a
\* `.` followed by a second `.` ends the number as an Integer token and the dots are lexed
\* as a range operator; any other `.` continues the number, which is lexed as one Float
\* token (`0.5` and `3.14` are one Float token each).
PointAfterIntegerDigits ==
    /\ (pc = "tokenize" /\ input[2] = "range")
       => result = WithFirstToken(Integer(DecimalValue(input[3])), tokenize(input[4]))
    /\ (pc = "tokenize" /\ input[2] = "float")
       => result = WithFirstToken(
                       Float(f64(DecimalValue(input[3] \o input[4]), 0 - Len(input[4]))),
                       tokenize(input[5]))

\* ---- the cursor: what a parsing function leaves of the tokens it was given

\* Parsing functions that take the cursor and return a node with the remaining cursor.
ParsingFunctions ==
    {"parse_program", "parse_statement", "parse_expression_statement", "parse_expression",
     "parse_pipe_expression", "parse_relational_expression", "parse_additive_expression",
     "parse_function_call_expression", "parse_member_or_slice_expression",
     "parse_primary_expression", "parse_tuple_or_parenthesized", "parse_identifier",
     "parse_literal"}

ParseWith ==
    /\ pc = "ready"
    /\ \E f \in ParsingFunctions :
          /\ pc' = f
          /\ result' = call(f, <<token_details>>)
    /\ UNCHANGED <<source_text, token_details, input>>

MaxCursorTokens == 3

CursorAlphabet ==
    {Identifier("a"), Integer(1), T("Plus"), T("LeftParen"), T("RightParen"), T("Comma"),
     NewLine, T("LessThan"), T("GreaterThan")}

InitCursor ==
    /\ source_text = <<>>
    /\ token_details \in BoundedSeq(CursorAlphabet, MaxCursorTokens)
    /\ input = <<"cursor">>
    /\ pc = "ready"
    /\ result = <<>>

NextCursor == ParseWith \/ Parse

SpecCursor == InitCursor /\ [][NextCursor]_vars

IsSuffix(rest, token_details_) ==
    /\ Len(rest) <= Len(token_details_)
    /\ rest = SubSeq(token_details_, Len(token_details_) - Len(rest) + 1, Len(token_details_))

\* The tokens a function consumed when it returned the cursor `rest`.
Consumed(token_details_, rest) == SubSeq(token_details_, 1, Len(token_details_) - Len(rest))

\* What is left of the tokens after the statements have been parsed from them one after
\* the other, blank lines skipped; <<"differs">> when a statement is not the one parsed.
RECURSIVE LeftAfter(_, _)
LeftAfter(token_details_, statements) ==
    LET post_new_lines == skip_new_lines(token_details_)
        s == call("parse_statement", <<post_new_lines>>)
    IN  IF statements = <<>> THEN post_new_lines
        ELSE IF post_new_lines # <<>> /\ s[1] = "Ok" /\ s[2] = statements[1]
        THEN LeftAfter(s[3], Tail(statements))
        ELSE <<"differs">>

\* C17: a parsing function that returns a node returns as remaining cursor a suffix of the
\* cursor it was given, the node is the one parsed from the consumed tokens alone (it
\* covers exactly that run), and parse returns a Program only when its statements, parsed
\* one after the other, leave nothing of the token sequence.
TokenConsumption ==
    /\ (pc \in ParsingFunctions /\ result[1] = "Ok")
       => /\ IsSuffix(result[3], token_details)
          /\ call(pc, <<Consumed(token_details, result[3])>>) = Ok(result[2], <<>>)
    /\ (pc = "parse" /\ result[1] = "Ok")
       => /\ result[2][1] = "Program"
          /\ LeftAfter(token_details, result[2][2]) = <<>>

TokenConsumptionWitness ==
    /\ pc = "parse_identifier"
    /\ token_details = <<Identifier("a"), T("LessThan"), Integer(1)>>
    /\ result[1] = "Ok"
    /\ result[3] = <<T("LessThan"), Integer(1)>>

\* ---- expression statements and blank lines

ParseExpressionStatement ==
    /\ pc = "ready"
    /\ pc' = "parse_expression_statement"
    /\ result' = call("parse_expression_statement", <<token_details>>)
    /\ UNCHANGED <<source_text, token_details, input>>

MaxStatementTokens == 4

StatementAlphabet == {Identifier("a"), Integer(1), T("Plus"), NewLine, T("RightParen")}

InitStatements ==
    /\ source_text = <<>>
    /\ token_details \in BoundedSeq(StatementAlphabet, MaxStatementTokens)
    /\ input = <<"statements">>
    /\ pc = "ready"
    /\ result = <<>>

NextStatements == ParseExpressionStatement \/ Parse

SpecStatements == InitStatements /\ [][NextStatements]_vars

\* The tokens with every run of NewLine tokens reduced to one NewLine.
RECURSIVE OneNewLinePerRun(_)
OneNewLinePerRun(token_details_) ==
    IF token_details_ = <<>> THEN <<>>
    ELSE IF token_details_[1] = NewLine
    THEN <<NewLine>> \o OneNewLinePerRun(skip_new_lines(token_details_))
    ELSE <<token_details_[1]>> \o OneNewLinePerRun(Tail(token_details_))

\* The tokens without blank lines: no NewLine at the start or at the end, and one NewLine
\* for every run of them in between.
WithoutBlankLines(token_details_) ==
    LET lines == OneNewLinePerRun(skip_new_lines(token_details_))
    IN  IF lines # <<>> /\ lines[Len(lines)] = NewLine
        THEN SubSeq(lines, 1, Len(lines) - 1)
        ELSE lines

\* C18: after the expression of an expression statement the statement consumes exactly one
\* NewLine token, or nothing at the end of the tokens, and any other token there makes
\* parse_expression_statement and parse return a ParserError; parse gives the same result
\* with and without blank lines, and a Program without statements for tokens that are all
\* NewLine.
StatementEndsAtNewLine ==
    /\ pc = "parse_expression_statement"
       => LET expression == call("parse_expression", <<token_details>>)
              rest == expression[3]
          IN  expression[1] = "Ok"
              => result = IF rest = <<>>
                          THEN Ok(<<"Expression", expression[2]>>, <<>>)
                          ELSE IF rest[1] = NewLine
                          THEN Ok(<<"Expression", expression[2]>>, Tail(rest))
                          ELSE Err("expected the new-line symbol")
    /\ pc = "parse"
       => LET expression == call("parse_expression", <<skip_new_lines(token_details)>>)
          IN  /\ (/\ expression[1] = "Ok"
                  /\ expression[3] # <<>>
                  /\ expression[3][1] # NewLine) => result[1] = "Err"
              /\ result = call("parse", <<WithoutBlankLines(token_details)>>)
              /\ skip_new_lines(token_details) = <<>> => result = Ok(<<"Program", <<>>>>, <<>>)

StatementEndsAtNewLineWitness ==
    /\ pc = "parse"
    /\ token_details = <<Identifier("a"), NewLine, NewLine, Integer(1)>>
    /\ result[1] = "Ok"
    /\ Len(result[2][2]) = 2
    /\ result[2][2][2] = <<"Expression", <<"Literal", <<"Integer", 1>>>>>>

\* ---- callees and argument lists

ParseFunctionCallExpression ==
    /\ pc = "ready"
    /\ pc' = "parse_function_call_expression"
    /\ result' = call("parse_function_call_expression", <<token_details>>)
    /\ UNCHANGED <<source_text, token_details, input>>

MaxCalls == 2

\* `1`, `"s"`, `(1)`, `(a, 1)`, `()`, `[a]`, `{a: 1}`, `sign (a) type a`
NotCallees ==
    {<<Integer(1)>>,
     <<GeneralString("s")>>,
     <<T("LeftParen"), Integer(1), T("RightParen")>>,
     <<T("LeftParen"), Identifier("a"), T("Comma"), Integer(1), T("RightParen")>>,
     <<T("LeftParen"), T("RightParen")>>,
     <<T("LeftBracket"), Identifier("a"), T("RightBracket")>>,
     <<T("LeftBrace"), Identifier("a"), T("Colon"), Integer(1), T("RightBrace")>>,
     <<T("Sign"), T("LeftParen"), Identifier("a"), T("RightParen"), T("Type"),
       Identifier("a")>>}

\* `a`, `a.b`, `a[1]`, `a.b[1]`, `(a)`, `(a + 1)`
Callees ==
    {<<Identifier("a")>>,
     <<Identifier("a"), T("Dot"), Identifier("b")>>,
     <<Identifier("a"), T("LeftBracket"), Integer(1), T("RightBracket")>>,
     <<Identifier("a"), T("Dot"), Identifier("b"), T("LeftBracket"), Integer(1),
       T("RightBracket")>>,
     <<T("LeftParen"), Identifier("a"), T("RightParen")>>,
     <<T("LeftParen"), Identifier("a"), T("Plus"), Integer(1), T("RightParen")>>}

\* `()`, `(a)`, `(1, a)`
ArgumentLists ==
    {<<T("LeftParen"), T("RightParen")>>,
     <<T("LeftParen"), Identifier("a"), T("RightParen")>>,
     <<T("LeftParen"), Integer(1), T("Comma"), Identifier("a"), T("RightParen")>>}

AfterCall == {<<>>, <<T("Asterisk"), Identifier("a")>>, <<NewLine>>}

InitCalls ==
    /\ source_text = <<>>
    /\ \E object \in NotCallees \cup Callees, after \in AfterCall :
          \E lists \in BoundedSeq(ArgumentLists, MaxCalls) :
              /\ input = <<"calls", object, lists, after>>
              /\ token_details = object \o Flatten(lists) \o after
    /\ pc = "ready"
    /\ result = <<>>

NextCalls == ParseFunctionCallExpression \/ Parse

SpecCalls == InitCalls /\ [][NextCalls]_vars

\* The node of the object on its own, as the member-or-index tier returns it.
ObjectNode(object) == call("parse_member_or_slice_expression", <<object>>)[2]

\* The arguments of an argument list.
ArgumentsOf(list) == call("continue_parse_arguments", <<list>>)[2]

\* The calls of the argument lists folded on the callee, left to right.
RECURSIVE CallsOn(_, _)
CallsOn(callee, lists) ==
    IF lists = <<>> THEN callee
    ELSE CallsOn(<<"FunctionCallExpression", callee, ArgumentsOf(lists[1])>>, Tail(lists))

\* C19: after a tuple, list, map, sign or literal (also a literal in parentheses) a
\* directly following `(` is left in the cursor and no call is built; after any other
\* object every directly following argument list is folded into a call, left to right.
CalleeRestriction ==
    (pc = "parse_function_call_expression" /\ input[1] = "calls")
    => IF input[2] \in NotCallees
       THEN /\ ObjectNode(input[2])[1] \in {"Tuple", "List", "Map", "Sign", "Literal"}
            /\ result[1] = "Ok"
            /\ result[2] = ObjectNode(input[2])
            /\ input[3] # <<>> => result[3] = Flatten(input[3]) \o input[4]
       ELSE result = Ok(CallsOn(ObjectNode(input[2]), input[3]), input[4])

CalleeRestrictionWitness ==
    /\ pc = "parse_function_call_expression"
    /\ input[2] = <<T("LeftParen"), Integer(1), T("RightParen")>>
    /\ Len(input[3]) = 2
    /\ result[1] = "Ok"
    /\ result[2] = <<"Literal", <<"Integer", 1>>>>

\* ---- integer literals

MaxIntegerTail == 2

\* `1`, `9`, `12`, and the first eighteen digits of i64::MAX
IntegerHeads ==
    {<<"1">>, <<"9">>, <<"1", "2">>, SubSeq(I64MaxDigits, 1, 18)}

InitInteger ==
    /\ \E head \in IntegerHeads, tail \in BoundedSeq({"0", "7", "8", "_"}, MaxIntegerTail) :
          /\ input = <<"integer", head, tail>>
          /\ source_text = head \o tail
    /\ token_details = <<>>
    /\ pc = "ready"
    /\ result = <<>>

NextInteger == Tokenize

SpecInteger == InitInteger /\ [][NextInteger]_vars

\* The number written by the digits, which do not start with `0`, is at most
\* i64::MAX = 9 223372036 854775807.
FitsInI64(digits) ==
    \/ Len(digits) < 19
    \/ /\ Len(digits) = 19
       /\ LET top == decimal(SubSeq(digits, 1, 1))
              middle == decimal(SubSeq(digits, 2, 10))
              low == decimal(SubSeq(digits, 11, 19))
          IN  \/ top < 9
              \/ top = 9 /\ middle < 223372036
              \/ top = 9 /\ middle = 223372036 /\ low <= 854775807

\* C20: a nonzero digit followed by digits and underscores lexes to exactly one Integer
\* token with the decimal value of the digits, underscores removed; when that value is
\* above i64::MAX tokenize returns a LexerError.
IntegerLiteralValue ==
    (pc = "tokenize" /\ input[1] = "integer")
    => LET digits == SelectSeq(source_text, LAMBDA c : c # "_")
       IN  IF FitsInI64(digits)
           THEN result = Ok(<<Integer(DecimalValue(digits))>>, <<>>)
           ELSE result[1] = "Err" /\ result[2][1] = "LexerError"

IntegerLiteralValueWitness ==
    /\ pc = "tokenize"
    /\ source_text = SubSeq(I64MaxDigits, 1, 18) \o <<"_", "8">>
    /\ result = LexerError("invalid integer number")

\* ---- the right operand of `&`

CombineOperands == {Identifier("a"), Identifier("b"), Integer(1)}

\* `if b then a`, `do { a }`
KeywordLed ==
    {<<T("If"), Identifier("b"), T("Then"), Identifier("a")>>,
     <<T("Do"), T("LeftBrace"), Identifier("a"), T("RightBrace")>>}

InitCombine ==
    /\ source_text = <<>>
    /\ \E a \in CombineOperands :
          \/ \E b \in CombineOperands, op \in BinaryOperators, c \in CombineOperands :
                /\ input = <<"combine", a, <<b, op, c>>>>
                /\ token_details = <<a, T("Combine"), b, op, c>>
          \/ \E right \in KeywordLed :
                /\ input = <<"combine keyword", a, right>>
                /\ token_details = <<a, T("Combine")>> \o right
    /\ pc = "ready"
    /\ result = <<>>

NextCombine == Parse

SpecCombine == InitCombine /\ [][NextCombine]_vars

\* C21: the right operand of `&` is parsed with the full expression grammar: for every
\* binary operator op, also one of a looser tier, `a & b op c` parses to &(a, op(b, c)),
\* and an expression that starts with a keyword is accepted as the right operand.
CombineRightOperand ==
    /\ (pc = "parse" /\ input[1] = "combine")
       => result = ProgramOfExpression(
                       BinaryExpression(T("Combine"), OperandNode(input[2]),
                           BinaryExpression(input[3][2], OperandNode(input[3][1]),
                                            OperandNode(input[3][3]))))
    /\ (pc = "parse" /\ input[1] = "combine keyword")
       => LET right == call("parse_expression", <<input[3]>>)
          IN  /\ right[1] = "Ok"
              /\ right[2][1] \in {"IfExpression", "BlockExpression"}
              /\ result = ProgramOfExpression(
                              BinaryExpression(T("Combine"), OperandNode(input[2]), right[2]))

CombineRightOperandWitness ==
    /\ pc = "parse"
    /\ token_details = <<Identifier("a"), T("Combine"), Identifier("b"), T("LogicOr"),
                         Identifier("a")>>
    /\ result[1] = "Ok"
    /\ result[2][2][1][2][2] = T("Combine")

\* ---- `if` and the lines before `else`

MaxBlankLines == 2

\* `a`, `1`, `{ a }`
Consequents ==
    {<<Identifier("a")>>, <<Integer(1)>>,
     <<T("LeftBrace"), Identifier("a"), T("RightBrace")>>}

\* nothing, the start of another statement, `else b`, `else { b }`
AfterConsequent ==
    {<<"end", <<>>>>,
     <<"statement", <<Identifier("b")>>>>,
     <<"else", <<T("Else"), Identifier("b")>>>>,
     <<"else", <<T("Else"), T("LeftBrace"), Identifier("b"), T("RightBrace")>>>>}

NewLines(n) == [i \in 1..n |-> NewLine]

InitIf ==
    /\ source_text = <<>>
    /\ \E consequent \in Consequents, lines \in 0..MaxBlankLines, after \in AfterConsequent :
          /\ input = <<"if", consequent, lines, after>>
          /\ token_details = <<T("If"), Identifier("a"), T("Then")>> \o consequent
                                 \o NewLines(lines) \o after[2]
    /\ pc = "ready"
    /\ result = <<>>

NextIf == ParseWith \/ Parse

SpecIf == InitIf /\ [][NextIf]_vars

\* The node of a consequent or alternate on its own.
BranchNode(tokens) ==
    call("continue_parse_expression_block_or_single_expression", <<tokens>>)[2]

\* C22: `else` may come after any number of NewLine tokens; when no `else` follows the
\* consequent, the if expression ends right after the consequent and the NewLine tokens
\* stay in the returned cursor, where they end the enclosing statement.
ElseAfterNewLines ==
    /\ (pc = "parse_expression" /\ input[1] = "if" /\ input[4][1] = "else")
       => result = Ok(<<"IfExpression", OperandNode(Identifier("a")), None,
                        BranchNode(input[2]), Some(BranchNode(Tail(input[4][2])))>>, <<>>)
    /\ (pc = "parse_expression" /\ input[1] = "if" /\ input[4][1] # "else")
       => result = Ok(<<"IfExpression", OperandNode(Identifier("a")), None,
                        BranchNode(input[2]), None>>,
                      NewLines(input[3]) \o input[4][2])
    /\ (pc = "parse" /\ input[1] = "if" /\ input[4][1] = "statement" /\ input[3] > 0)
       => /\ result[1] = "Ok"
          /\ Len(result[2][2]) = 2
          /\ result[2][2][2] = <<"Expression", OperandNode(Identifier("b"))>>

ElseAfterNewLinesWitness ==
    /\ pc = "parse_expression"
    /\ input[1] = "if"
    /\ input[3] = 2
    /\ input[4][1] = "statement"
    /\ result[1] = "Ok"
    /\ result[3] = <<NewLine, NewLine, Identifier("b")>>

\* ---- named operators: `a :f: b :g: c`

ParseNamedOperatorExpression ==
    /\ pc = "ready"
    /\ pc' = "parse_named_operator_expression"
    /\ result' = call("parse_named_operator_expression", <<token_details>>)
    /\ UNCHANGED <<source_text, token_details, input>>

NamedOperands == {Identifier("a"), Identifier("b"), Integer(1)}

NamedOperators == {NamedOperator("f"), NamedOperator("g")}

InitNamed ==
    /\ source_text = <<>>
    /\ \E a \in NamedOperands, f \in NamedOperators, b \in NamedOperands :
          \/ /\ input = <<"named", 1, a, f, b>>
             /\ token_details = <<a, f, b>>
          \/ \E g \in NamedOperators, c \in NamedOperands :
                /\ input = <<"named", 2, a, f, b, g, c>>
                /\ token_details = <<a, f, b, g, c>>
    /\ pc = "ready"
    /\ result = <<>>

NextNamed == ParseNamedOperatorExpression \/ Parse

SpecNamed == InitNamed /\ [][NextNamed]_vars

\* C23: the named-operator tier applies at most one named operator: of `a :f: b :g: c` it
\* builds :f:(a, b) and leaves `:g: c` in the cursor, and parse of these tokens returns a
\* ParserError; `a :f: b` alone parses to :f:(a, b).
SingleNamedOperator ==
    /\ (pc = "parse_named_operator_expression" /\ input[1] = "named")
       => result = Ok(BinaryExpression(input[4], OperandNode(input[3]), OperandNode(input[5])),
                      SubSeq(token_details, 4, Len(token_details)))
    /\ (pc = "parse" /\ input[1] = "named" /\ input[2] = 1)
       => result = ProgramOfExpression(
                       BinaryExpression(input[4], OperandNode(input[3]),
                                        OperandNode(input[5])))
    /\ (pc = "parse" /\ input[1] = "named" /\ input[2] = 2) => result[1] = "Err"

SingleNamedOperatorWitness ==
    /\ pc = "parse"
    /\ token_details = <<Identifier("a"), NamedOperator("f"), Identifier("b"),
                         NamedOperator("g"), Integer(1)>>
    /\ result = Err("expected the new-line symbol")

\* ---- what separates the elements of a list, tuple, argument list, map or constructor

MaxEntries == 3

EntryValues == {Identifier("a"), Integer(1)}

\* `,`, a new line, `,` and a new line, two new lines, nothing
Separators ==
    {<<T("Comma")>>, <<NewLine>>, <<T("Comma"), NewLine>>, <<NewLine, NewLine>>, <<>>}

\* what may stand between the last element and the closing delimiter
Trailers == {<<>>, <<T("Comma")>>, <<NewLine>>, <<T("Comma"), NewLine>>}

\* kind, opening tokens, closing token, is it a map
Containers ==
    {<<"list", <<T("LeftBracket")>>, T("RightBracket"), FALSE>>,
     <<"tuple", <<T("LeftParen")>>, T("RightParen"), FALSE>>,
     <<"arguments", <<Identifier("f"), T("LeftParen")>>, T("RightParen"), FALSE>>,
     <<"map", <<T("LeftBrace")>>, T("RightBrace"), TRUE>>,
     <<"constructor", <<Identifier("f"), T("LeftBrace")>>, T("RightBrace"), TRUE>>}

\* The tokens of an element: in a map `k: 1` for the integer and the bare name otherwise.
EntryTokens(container, value) ==
    IF container[4] /\ value[1] = "Integer"
    THEN <<Identifier("k"), T("Colon"), value>>
    ELSE <<value>>

\* The elements with separators[i] between element i and element i + 1.
RECURSIVE Separated(_, _, _)
Separated(container, values, separators) ==
    IF Len(values) = 1 THEN EntryTokens(container, values[1])
    ELSE EntryTokens(container, values[1]) \o separators[1]
             \o Separated(container, Tail(values), Tail(separators))

Contained(container, values, separators, trailer) ==
    container[2] \o Separated(container, values, separators) \o trailer \o <<container[3]>>

InitSeparators ==
    /\ source_text = <<>>
    /\ \E container \in Containers, n \in 2..MaxEntries, trailer \in Trailers :
          \E values \in [1..n -> EntryValues], separators \in [1..(n - 1) -> Separators] :
              /\ input = <<"separators", container, values, separators, trailer>>
              /\ token_details = Contained(container, values, separators, trailer)
    /\ pc = "ready"
    /\ result = <<>>

NextSeparators == Parse

SpecSeparators == InitSeparators /\ [][NextSeparators]_vars

\* The separator lets another element follow: it has a comma, or, in a map or
\* constructor, it is not empty.
Separates(container, separator) ==
    \/ separator # <<>> /\ separator[1] = T("Comma")
    \/ container[4] /\ separator # <<>>

\* C24: in a list, a tuple and an argument list two elements must be separated by a comma
\* (new lines may follow it); new lines alone, or nothing, between them make parse return
\* a ParserError. In a map and a constructor a comma, new lines, or a comma and new lines
\* separate two entries. Where every separator separates, the result is the one of the
\* same elements separated by single commas.
ElementSeparation ==
    (pc = "parse" /\ input[1] = "separators")
    => LET container == input[2]
           n == Len(input[3])
           commas == [i \in 1..(n - 1) |-> <<T("Comma")>>]
       IN  IF \A i \in 1..(n - 1) : Separates(container, input[4][i])
           THEN /\ result[1] = "Ok"
                /\ result = call("parse", <<Contained(container, input[3], commas, <<>>)>>)
           ELSE result[1] = "Err"

ElementSeparationWitness ==
    /\ pc = "parse"
    /\ token_details = <<T("LeftBracket"), Identifier("a"), NewLine, Integer(1),
                         T("RightBracket")>>
    /\ result[1] = "Err"

\* ---- an interval or an ellipsis is the last element

\* `1..2`, `1..`, `1..=2` (list only), `...`, `...r`
IntervalElements ==
    {<<Integer(1), T("Interval"), Integer(2)>>,
     <<Integer(1), T("Interval")>>,
     <<Integer(1), T("IntervalInclusive"), Integer(2)>>}

EllipsisElements == {<<T("Ellipsis")>>, <<T("Ellipsis"), Identifier("r")>>}

\* kind, opening token, closing token, the elements that must be last
ClosedContainers ==
    {<<"list", T("LeftBracket"), T("RightBracket"), IntervalElements \cup EllipsisElements>>,
     <<"tuple", T("LeftParen"), T("RightParen"), EllipsisElements>>,
     <<"map", T("LeftBrace"), T("RightBrace"), EllipsisElements>>}

\* the elements before: none, or `a,`
Leading == {<<>>, <<Identifier("a"), T("Comma")>>}

AfterLast == {<<>>, <<T("Comma")>>, <<T("Comma"), NewLine>>, <<NewLine>>}

\* nothing, or one further element
Further == {<<>>, <<Identifier("b")>>, <<Integer(2)>>}

InitLast ==
    /\ source_text = <<>>
    /\ \E container \in ClosedContainers, leading \in Leading :
          \E element \in container[4], after \in AfterLast, further \in Further :
              /\ input = <<"last", container, leading, element, after, further>>
              /\ token_details = <<container[2]>> \o leading \o element \o after \o further
                                     \o <<container[3]>>
    /\ pc = "ready"
    /\ result = <<>>

NextLast == Parse

SpecLast == InitLast /\ [][NextLast]_vars

\* The tokens written after the element belong to the element itself: the `to` part of
\* `1..` (new lines after `..` are skipped), or the name of `...`.
ContinuesElement(element, after, further) ==
    /\ further # <<>>
    /\ after \in {<<>>, <<NewLine>>}
    /\ \/ element[Len(element)] = T("Interval")
       \/ /\ element = <<T("Ellipsis")>>
          /\ after = <<>>
          /\ further[1][1] = "Identifier"

\* C25: after an interval element of a list (`1..2`, `1..`, `1..=2`) and after an ellipsis
\* element of a list, a tuple or a map (`...`, `...r`), a comma and new lines and then the
\* closing delimiter are accepted and give the container with that element last; a further
\* element makes parse return a ParserError.
IntervalOrEllipsisIsLast ==
    (pc = "parse" /\ input[1] = "last")
    => LET container == input[2]
           element == input[4]
           after == input[5]
           further == input[6]
           alone == <<container[2]>> \o input[3] \o element \o <<container[3]>>
       IN  IF further = <<>>
           THEN result[1] = "Ok" /\ result = call("parse", <<alone>>)
           ELSE IF ContinuesElement(element, after, further)
           THEN result[1] = "Ok"
           ELSE result[1] = "Err"

IntervalOrEllipsisIsLastWitness ==
    /\ pc = "parse"
    /\ token_details = <<T("LeftBracket"), Integer(1), T("Interval"), Integer(2), T("Comma"),
                         Identifier("b"), T("RightBracket")>>
    /\ result = Err("expected the right bracket symbol")

\* ---- termination of tokenize and parse, one loop iteration per step

\* While pc = "tokenizing", source_text is the remaining character slice of the loop of
\* tokenize and token_details the tokens pushed so far; while pc = "parsing",
\* token_details is the remaining cursor of the loop of parse_program and result the
\* statements pushed so far. A loop that has returned leaves pc = "done" and what it
\* returned in result.

\* One test of the loop condition of tokenize and, when it holds, one iteration.
TokenizeIteration ==
    /\ pc = "tokenizing"
    /\ IF source_text = <<>>
       THEN /\ pc' = "done"
            /\ result' = Ok(token_details, <<>>)
            /\ UNCHANGED <<source_text, token_details>>
       ELSE LET step == tokenize_step(source_text)
            IN  IF step[1] = "Ok"
                THEN /\ source_text' = step[3]
                     /\ token_details' = token_details \o step[2]
                     /\ UNCHANGED <<pc, result>>
                ELSE /\ pc' = "done"
                     /\ result' = step
                     /\ UNCHANGED <<source_text, token_details>>
    /\ UNCHANGED input

\* One test of the loop condition of parse_program and, when it holds, one statement.
ParseProgramIteration ==
    /\ pc = "parsing"
    /\ LET post_new_lines == skip_new_lines(token_details)
           s == call("parse_statement", <<post_new_lines>>)
       IN  IF post_new_lines = <<>>
           THEN /\ pc' = "done"
                /\ result' = Ok(<<"Program", result>>, <<>>)
                /\ token_details' = post_new_lines
           ELSE IF s[1] = "Ok"
           THEN /\ token_details' = s[3]
                /\ result' = Append(result, s[2])
                /\ pc' = pc
           ELSE /\ pc' = "done"
                /\ result' = s
                /\ token_details' = post_new_lines
    /\ UNCHANGED <<source_text, input>>

MaxRemaining == 3

\* a quote, a letter, a digit, a blank and a line feed
RemainingChars == {"'", "a", "1", " ", "\n"}

RemainingTokens ==
    {Identifier("a"), Integer(1), NewLine, T("Plus"), T("LeftBracket"), T("RightBracket"),
     T("Comma"), T("Use")}

InitTermination ==
    /\ result = <<>>
    /\ \/ /\ source_text \in BoundedSeq(RemainingChars, MaxRemaining)
          /\ token_details = <<>>
          /\ input = <<"termination", source_text>>
          /\ pc = "tokenizing"
       \/ /\ source_text = <<>>
          /\ token_details \in BoundedSeq(RemainingTokens, MaxRemaining)
          /\ input = <<"termination", token_details>>
          /\ pc = "parsing"

NextTermination == TokenizeIteration \/ ParseProgramIteration

SpecTermination == InitTermination /\ [][NextTermination]_vars

\* What an iteration of the running loop returns: Ok(.., the remaining input), an error
\* or an abort.
Iteration ==
    IF pc = "tokenizing"
    THEN tokenize_step(source_text)
    ELSE call("parse_statement", <<skip_new_lines(token_details)>>)

Remaining == IF pc = "tokenizing" THEN source_text ELSE skip_new_lines(token_details)

\* An iteration of a running loop ends the loop or leaves less input, so a step is
\* possible exactly while a loop is running.
IterationAdvances ==
    (pc # "done" /\ Remaining # <<>>)
    => (Iteration[1] = "Ok" => Len(Iteration[3]) < Len(Remaining))

\* WF_vars(NextTermination) with ENABLED <<NextTermination>>_vars written as pc # "done":
\* the loops are sequential code, an iteration is taken whenever a loop is running.
SpecTerminationFair ==
    SpecTermination /\ ([]<>(pc = "done") \/ []<><<NextTermination>>_vars)

\* Both loops return: with a value, an error or an abort.
Termination == <>(pc = "done")

\* C26: every iteration of the main loop of tokenize returns a strictly shorter remaining
\* character slice or an error; every statement of parse_program, and every element that
\* an element loop parses with parse_expression, consumes at least one token or returns
\* an error.
IterationConsumesOrFails ==
    /\ (pc = "tokenizing" /\ source_text # <<>>)
       => LET step == tokenize_step(source_text)
          IN  \/ step[1] = "Ok" /\ Len(step[3]) < Len(source_text)
              \/ step[1] = "Err"
    /\ (pc = "parsing" /\ skip_new_lines(token_details) # <<>>)
       => LET post_new_lines == skip_new_lines(token_details)
              s == call("parse_statement", <<post_new_lines>>)
              element == call("parse_expression", <<post_new_lines>>)
          IN  /\ \/ s[1] = "Ok" /\ Len(s[3]) < Len(post_new_lines)
                 \/ s[1] = "Err"
              /\ \/ element[1] = "Ok" /\ Len(element[3]) < Len(post_new_lines)
                 \/ element[1] = "Err"

\* ---- `-` in the exponent of a numeric literal

MaxExponentChars == 3

\* `5` and `1.5`, each followed by `e`
Mantissas == {<<"5", "e">>, <<"1", ".", "5", "e">>}

ExponentAlphabet == {"-", "1", "2", "_", " "}

InitExponent ==
    /\ \E mantissa \in Mantissas, after \in BoundedSeq(ExponentAlphabet, MaxExponentChars) :
          /\ input = <<"exponent", mantissa, after>>
          /\ source_text = mantissa \o after
    /\ token_details = <<>>
    /\ pc = "ready"
    /\ result = <<>>

NextExponent == Tokenize

SpecExponent == InitExponent /\ [][NextExponent]_vars

\* The characters up to the first one that is neither `-`, a digit nor `_`.
RECURSIVE ExponentRun(_)
ExponentRun(chars) ==
    IF chars = <<>> \/ chars[1] \notin Digits \cup {"-", "_"} THEN <<>>
    ELSE <<chars[1]>> \o ExponentRun(Tail(chars))

\* C27: a `-` directly after `e` belongs to the exponent; a `-` after at least one
\* exponent character makes tokenize return the LexerError "invalid exponent number"
\* instead of ending the literal, and no other text gives that error. Where the text is a
\* mantissa, `e` and an exponent with a digit whose only `-` is the first character,
\* tokenize returns one Float token.
MinusInExponent ==
    (pc = "tokenize" /\ input[1] = "exponent")
    => LET run == ExponentRun(input[3])
       IN  IF \E k \in 2..Len(run) : run[k] = "-"
           THEN result = LexerError("invalid exponent number")
           ELSE /\ result # LexerError("invalid exponent number")
                /\ (run = input[3] /\ \E k \in 1..Len(run) : run[k] \in Digits)
                   => /\ result[1] = "Ok"
                      /\ Len(result[2]) = 1
                      /\ result[2][1][1] = "Float"

MinusInExponentWitness ==
    /\ pc = "tokenize"
    /\ source_text = <<"5", "e", "2", "-", "1">>
    /\ result = LexerError("invalid exponent number")

\* `5e-2` is one literal.
MinusInExponentAccepted ==
    /\ pc = "tokenize"
    /\ source_text = <<"5", "e", "-", "2">>
    /\ result = Ok(<<Float(<<5, -2>>)>>, <<>>)

\* ---- the quote that closes a string or a template string

MaxStringChars == 4

\* the quote of a string and the quote of a template string
Quotes == {"\"", GraveAccent}

InitQuoted ==
    /\ \E quote \in Quotes :
          \E after \in BoundedSeq({"\\", quote, "b"}, MaxStringChars) :
              /\ input = <<"quoted", quote, after>>
              /\ source_text = <<quote>> \o after
    /\ token_details = <<>>
    /\ pc = "ready"
    /\ result = <<>>

NextQuoted == Tokenize

SpecQuoted == InitQuoted /\ [][NextQuoted]_vars

\* The positions of the quotes that are not immediately preceded by a backslash.
Unescaped(chars, quote) ==
    {k \in 1..Len(chars) : chars[k] = quote /\ (k = 1 \/ chars[k - 1] # "\\")}

First(positions) == CHOOSE k \in positions : \A other \in positions : k <= other

StringToken(quote, value) ==
    IF quote = "\"" THEN GeneralString(value) ELSE TemplateString(value)

UnterminatedMessage(quote) ==
    IF quote = "\""
    THEN "expected string literal ending symbol"
    ELSE "expected template string literal ending symbol"

\* C28: the literal ends at the first quote that is not immediately preceded by a
\* backslash, whatever stands before that backslash; when the text has no such quote
\* (for example the content ends with two backslashes and the final quote) tokenize
\* returns the LexerError of an unterminated literal. Texts that start with `"""` are
\* raw strings and are left out.
EscapedQuoteNeverCloses ==
    (pc = "tokenize" /\ input[1] = "quoted" /\ ~is_chars(<<"\"", "\"", "\"">>, source_text))
    => LET quote == input[2]
           after == input[3]
           closing == Unescaped(after, quote)
           end_pos == First(closing) - 1
       IN  IF closing = {}
           THEN result = LexerError(UnterminatedMessage(quote))
           ELSE /\ tokenize_step(source_text)
                       = Ok(<<StringToken(quote, collect(SubSeq(after, 1, end_pos)))>>,
                            SubSeq(after, end_pos + 2, Len(after)))
                /\ end_pos + 1 = Len(after)
                   => result = Ok(<<StringToken(quote, collect(SubSeq(after, 1, end_pos)))>>,
                                  <<>>)

EscapedQuoteNeverClosesWitness ==
    /\ pc = "tokenize"
    /\ source_text = <<"\"", "b", "\\", "\\", "\"">>
    /\ result = LexerError("expected string literal ending symbol")

\* ---- member access, index access and calls after one another

MaxPostfixes == 3

\* `.n`, `.1`, `[i]`, `[0]`
MemberPostfixes ==
    {<<T("Dot"), Identifier("n")>>,
     <<T("Dot"), Integer(1)>>,
     <<T("LeftBracket"), Identifier("i"), T("RightBracket")>>,
     <<T("LeftBracket"), Integer(0), T("RightBracket")>>}

\* `(x)`, `()`
CallPostfixes ==
    {<<T("LeftParen"), Identifier("x"), T("RightParen")>>,
     <<T("LeftParen"), T("RightParen")>>}

InitPostfixes ==
    /\ source_text = <<>>
    /\ \E postfixes \in BoundedSeq(MemberPostfixes \cup CallPostfixes, MaxPostfixes) :
          /\ input = <<"postfixes", postfixes>>
          /\ token_details = <<Identifier("f")>> \o Flatten(postfixes)
    /\ pc = "ready"
    /\ result = <<>>

NextPostfixes == ParseFunctionCallExpression \/ Parse

SpecPostfixes == InitPostfixes /\ [][NextPostfixes]_vars

\* The number of leading postfixes that are member or index accesses.
RECURSIVE LeadingMembers(_)
LeadingMembers(postfixes) ==
    IF postfixes = <<>> \/ postfixes[1] \notin MemberPostfixes THEN 0
    ELSE 1 + LeadingMembers(Tail(postfixes))

\* The number of leading postfixes that are argument lists.
RECURSIVE LeadingCalls(_)
LeadingCalls(postfixes) ==
    IF postfixes = <<>> \/ postfixes[1] \notin CallPostfixes THEN 0
    ELSE 1 + LeadingCalls(Tail(postfixes))

\* The member and index accesses folded on the object, left to right.
RECURSIVE MembersOn(_, _)
MembersOn(object, postfixes) ==
    IF postfixes = <<>> THEN object
    ELSE IF postfixes[1][1] = T("Dot")
    THEN MembersOn(<<"MemberExpression", "Property", object, OperandNode(postfixes[1][2])>>,
                   Tail(postfixes))
    ELSE MembersOn(<<"MemberExpression", "Index", object, OperandNode(postfixes[1][2])>>,
                   Tail(postfixes))

\* C29: the mono tier folds the member and index accesses that directly follow the
\* object and then the argument lists that directly follow those, each left to right
\* (`f.n(x)`, `f[i](x)`, `f(x)(y)`); a `.n` or `[i]` after a call is left in the cursor,
\* and parse of such a statement (`f(x).n`, `f(x)[i]`) returns a ParserError.
MembersBeforeCalls ==
    LET postfixes == input[2]
        members == LeadingMembers(postfixes)
        after_members == SubSeq(postfixes, members + 1, Len(postfixes))
        calls == LeadingCalls(after_members)
        after_calls == SubSeq(after_members, calls + 1, Len(after_members))
        node == CallsOn(MembersOn(OperandNode(Identifier("f")),
                                  SubSeq(postfixes, 1, members)),
                        SubSeq(after_members, 1, calls))
    IN  /\ (pc = "parse_function_call_expression" /\ input[1] = "postfixes")
           => result = Ok(node, Flatten(after_calls))
        /\ (pc = "parse" /\ input[1] = "postfixes")
           => IF after_calls = <<>>
              THEN result = ProgramOfExpression(node)
              ELSE result[1] = "Err"

MembersBeforeCallsWitness ==
    /\ pc = "parse"
    /\ token_details = <<Identifier("f"), T("LeftParen"), Identifier("x"), T("RightParen"),
                         T("Dot"), Identifier("n")>>
    /\ result[1] = "Err"

\* `f.n(x)` is a call on a member.
MemberIsCallee ==
    /\ pc = "parse_function_call_expression"
    /\ token_details = <<Identifier("f"), T("Dot"), Identifier("n"), T("LeftParen"),
                         Identifier("x"), T("RightParen")>>
    /\ result[1] = "Ok"
    /\ result[2][1] = "FunctionCallExpression"
    /\ result[2][2][1] = "MemberExpression"

\* ---- the variable of a match case

ContinueParseMatchCase ==
    /\ pc = "ready"
    /\ pc' = "continue_parse_match_case"
    /\ result' = call("continue_parse_match_case", <<token_details>>)
    /\ UNCHANGED <<source_text, token_details, input>>

\* What stands between `case` and the pattern: `v @`, `v @` and a new line, `v` and a new
\* line and `@`, `(v) @`, `m::v @`, `1 @`, `"s" @`, `v() @`, `v`, `@`, nothing.
CaseHeads ==
    {<<Identifier("v"), T("At")>>,
     <<Identifier("v"), T("At"), NewLine>>,
     <<Identifier("v"), NewLine, T("At")>>,
     <<T("LeftParen"), Identifier("v"), T("RightParen"), T("At")>>,
     <<Identifier("m"), T("Separator"), Identifier("v"), T("At")>>,
     <<Integer(1), T("At")>>,
     <<GeneralString("s"), T("At")>>,
     <<Identifier("v"), T("LeftParen"), T("RightParen"), T("At")>>,
     <<Identifier("v")>>,
     <<T("At")>>,
     <<>>}

\* `1`, `w`, `in w`, no pattern
CasePatterns == {<<Integer(1)>>, <<Identifier("w")>>, <<T("In"), Identifier("w")>>, <<>>}

\* `: 2`, `:`, nothing
CaseTails == {<<T("Colon"), Integer(2)>>, <<T("Colon")>>, <<>>}

InitVariable ==
    /\ source_text = <<>>
    /\ \E blank \in {<<>>, <<NewLine>>}, head \in CaseHeads, pattern \in CasePatterns,
          tail \in CaseTails :
              /\ input = <<"variable", blank, head, pattern, tail>>
              /\ token_details = <<T("Case")>> \o blank \o head \o pattern \o tail
    /\ pc = "ready"
    /\ result = <<>>

NextVariable == ContinueParseMatchCase

SpecVariable == InitVariable /\ [][NextVariable]_vars

\* The match case with the given variable whose pattern starts at the given cursor.
CaseFrom(variable, token_details_) ==
    LET pattern == call("continue_parse_match_case_pattern", <<token_details_>>)
        clauses == call("continue_parse_match_case_clauses",
                        <<skip_new_lines(pattern[3]), None, None>>)
        colon == consume_token(T("Colon"), clauses[3])
        consequent == call("continue_parse_expression_block_or_single_expression",
                           <<colon[3]>>)
    IN  IF pattern[1] # "Ok" THEN pattern
        ELSE IF clauses[1] # "Ok" THEN clauses
        ELSE IF colon[1] # "Ok" THEN colon
        ELSE IF consequent[1] # "Ok" THEN consequent
        ELSE Ok(<<"MatchCase", variable, pattern[2], clauses[2][1], clauses[2][2],
                  consequent[2]>>, consequent[3])

\* The tokens after `case` and the new lines that follow it.
AfterCase == skip_new_lines(Tail(token_details))

VariableIsIdentifierNode ==
    (pc = "continue_parse_match_case" /\ input[1] = "variable")
    => LET p == call("parse_primary_expression", <<AfterCase>>)
       IN  IF p[1] = "Ok" /\ p[2][1] = "Identifier" /\ is_token(T("At"), p[3])
           THEN result = CaseFrom(Some(p[2][3]), skip_new_lines(Tail(p[3])))
           ELSE result = CaseFrom(None, AfterCase)

\* `case (v) @ 1: 2` has the variable v.
VariableIsIdentifierNodeWitness ==
    /\ pc = "continue_parse_match_case"
    /\ token_details = <<T("Case"), T("LeftParen"), Identifier("v"), T("RightParen"),
                         T("At"), Integer(1), T("Colon"), Integer(2)>>
    /\ result[1] = "Ok"
    /\ result[2][2] = Some("v")
    /\ result[2][3] = Some(<<"Primary", OperandNode(Integer(1))>>)
    /\ result[3] = <<>>

\* `case: 2`: the speculative parse fails on `:` and the case is parsed without pattern.
SpeculationFailsQuietly ==
    /\ pc = "continue_parse_match_case"
    /\ token_details = <<T("Case"), T("Colon"), Integer(2)>>
    /\ call("parse_primary_expression", <<AfterCase>>)[1] = "Err"
    /\ result[1] = "Ok"
    /\ result[2][2] = None
    /\ result[2][3] = None

====
